---- MODULE Spec2Model ----
(***************************************************************************)
(* Hermes API gateway: the service registry (core.ServiceRegistry), the    *)
(* service record (service.Service), the health checker                    *)
(* (core.HealthChecker), the registration handlers and the routing         *)
(* resolver (core.RoutingService), as one state machine.                   *)
(*                                                                         *)
(* A service record is a heap object shared by pointer between the         *)
(* registry maps and the probe goroutines; an object is named by its ID    *)
(* (a fresh UUID per NewService).  Registry methods run under the          *)
(* registry's RWMutex and are one step each.  MarkHealthy / MarkUnhealthy  *)
(* run in the probe goroutine without the lock, so each field access of    *)
(* theirs is a step of its own.                                            *)
(***************************************************************************)
EXTENDS Integers, Sequences, FiniteSets, TLC

\* ------------------------------------------------------------------ bounds
\* registrations, ticks and threshold values of the registry-centred runs (Spec)
MaxIds == 2
MaxTicks == 1
\* registrations and ticks of the checker-centred runs (SpecChecker)
MaxProbedIds == 1
MaxProbeTicks == 2
MaxThreshold == 2
MaxPort == 1
\* check goroutines alive at once, in Spec and in SpecChecker
MaxInFlight == 1
MaxProbesInFlight == 2
\* registrations and /route requests of the routing runs (SpecRoute)
MaxRouteIds == 2
MaxRoutes == 1
\* registrations, ticks, check goroutines and restarts of the runs with restarts
\* (SpecRestart)
MaxRestartIds == 1
MaxRestartTicks == 2
MaxRestartInFlight == 1
MaxRestarts == 1
\* registrations, ticks, check goroutines and pooled connections of the runs over
\* the audit table (SpecLogs); the largest LIMIT a reader of it passes
MaxLogIds == 1
MaxLogTicks == 2
MaxLogInFlight == 1
MaxConns == 2
MaxLimit == 2
MaxQueryLen == 2
MaxLifeIds == 1
MaxLifeTicks == 2
MaxLifeInFlight == 1
MaxStops == 2
MaxOrderIds == 3
\* registrations of the runs with the middleware chain (SpecAuth)
MaxAuthIds == 2
\* header names an inbound request of the proxy runs carries (SpecProxy)
MaxHeaders == 2

Max(a, b) == IF a >= b THEN a ELSE b

IDS == 1..Max(Max(Max(Max(MaxIds, MaxProbedIds), MaxRouteIds), MaxRestartIds),
            Max(Max(MaxLogIds, MaxAuthIds), MaxOrderIds))
TICKS == 1..Max(Max(Max(MaxTicks, MaxProbeTicks), MaxRestartTicks), MaxLogTicks)
NAMES == {"api", "web"}
HOSTS == {"h1", "h2"}
PORTS == 1..MaxPort

\* ------------------------------------------------------- service.Status
StatusHealthy == "healthy"
StatusUnhealthy == "unhealthy"
StatusDraining == "draining"

\* ------------------------------------------------------ registry errors
OK == "ok"
AlreadyRegistered == "service already registered"
DuplicateAddress == "service already registered at this address"
NotFound == "service not found"

\* stored: whether the method's statement on the store was applied, failed, or
\* was not issued
Applied == "applied"
Failed == "failed"
NotIssued == "none"
NoRet == [op |-> "none", id |-> 0, err |-> OK, stored |-> NotIssued]

\* --------------------------------------------------------- probe outcomes
\* reqerr: http.NewRequestWithContext failed; neterr: client.Do failed;
\* ok: a 2xx response; bad: a response outside [200,300).
OUTCOMES == {"reqerr", "neterr", "ok", "bad"}
FAILURES == {"reqerr", "neterr", "bad"}

NoProbe == [pc |-> "none", outcome |-> "none", fcTmp |-> 0, stTmp |-> "none",
            pre |-> <<"none", 0, 0>>]

VARIABLES
    now,              \* wall clock, in health-check intervals
    failureThreshold, \* HealthChecker.failureThreshold
    obj,              \* heap: ID -> service.Service object
    life,             \* per ID: position of the registration request that made it
    services,         \* ServiceRegistry.services (its key set; values are obj)
    byName,           \* ServiceRegistry.byName: the sequence of each name
    byNameKeys,       \* the keys present in ServiceRegistry.byName
    byNameCap,        \* cap(r.byName[name]): the length of the slice's backing array
    held,             \* the slice a caller of GetByName holds
    dbServices,       \* table services: id -> row
    dbLogs,           \* table health_check_logs: service_id -> checked_at of its rows, by rowid
    probes,           \* check goroutines: [id][tick] -> position and locals
    ret,              \* what the registry method called in this step returned
    lastDone,         \* per ID: outcome of the probe of it that returned last
    streak,           \* per ID: failed probes in a row since healthy/0, -1 once probes overlapped
    rt,               \* the /route request in progress
    readView,         \* what a registry reader serialised in this step
    faulty,           \* whether the store may fail a statement
    limits,           \* how many registrations and ticks the run has
    boots,            \* how many times the process was restarted
    pooled,           \* whether the pool holds a connection opened after the PRAGMA
    req,              \* the management request passing the middleware chain
    px,               \* the request the proxy is cloning for a backend
    hc,               \* the HealthChecker: its Start loop, ticker and stopChan
    mu                \* ServiceRegistry.mu: the goroutines holding it, each with its mode

regVars == <<obj, life, services, byName, dbServices, dbLogs>>
vars == <<now, failureThreshold, obj, life, services, byName, byNameKeys, byNameCap, held,
         dbServices, dbLogs,
          probes, ret, lastDone, streak, rt, readView, faulty, limits, boots, pooled, req, px,
          hc, mu>>

NoRoute == [pc |-> "idle", n |-> 0, name |-> "none", instances |-> <<>>,
            hadHealthy |-> FALSE, invoked |-> FALSE, sent |-> FALSE, target |-> 0,
            code |-> 0, error |-> "none", service |-> "none", message |-> "none"]
NoView == [id |-> 0, status |-> "none", fc |-> 0, lca |-> 0]
\* no slice held: name is the name asked for, returned what GetByName returned,
\* elems what the slice reads now, aliased whether its backing array is still
\* the one of r.byName[name]
NoHeld == [name |-> "none", returned |-> <<>>, elems |-> <<>>, aliased |-> FALSE]

\* ------------------------------------------------------------ proxy
\* A header name is a word in one of three spellings; two names are the same
\* string iff word and spelling agree.
CASINGS == {"lower", "canonical", "upper"}
\* the names of the list in isHopByHopHeader
HopByHopWords == {"connection", "keep-alive", "proxy-authenticate", "proxy-authorization",
                  "te", "trailers", "transfer-encoding", "upgrade"}
\* the names the inbound requests of the runs carry
HeaderWords == {"connection", "te", "authorization", "x-custom", "x-forwarded-for",
                "x-forwarded-proto"}
HeaderKeys == [word : HeaderWords, casing : CASINGS]
HeaderValues == {<<"a">>, <<"a", "b">>}
\* the header maps of at most MaxHeaders names, one spelling per name
HEADERMAPS ==
    UNION {[ks -> HeaderValues] :
             ks \in {x \in SUBSET HeaderKeys :
                       /\ Cardinality(x) <= MaxHeaders
                       /\ \A a, b \in x : a.word = b.word => a = b}}
REMOTEADDRS == {"", "10.0.0.9:5555"}
HOSTS_IN == {"", "gateway"}
SCHEMES == {"", "https"}
\* the inbound requests: http.Request.Header, RemoteAddr, Host, URL.Scheme
ORIGINALS == [header : HEADERMAPS, remoteAddr : REMOTEADDRS, host : HOSTS_IN,
              scheme : SCHEMES]
NoHeader == [k \in {} |-> <<>>]
NoPx == [pc |-> "idle",
         original |-> [header |-> NoHeader, remoteAddr |-> "", host |-> "", scheme |-> ""],
         proxyReq |-> [header |-> NoHeader]]

\* ------------------------------------------------- checker lifecycle
\* NewHealthChecker: stopChan made, Start not yet running.  stops counts the calls
\* of Stop that returned, panics those that panicked
NewChecker == [pc |-> "new", ticker |-> "none", stopChan |-> "open", stops |-> 0,
               panics |-> 0]
\* main after go checker.Start(): the loop waits in its select
Started == [NewChecker EXCEPT !.pc = "select", !.ticker = "running"]

\* ------------------------------------------------- management requests
\* the routes of service.RegisterRoutes
PublicRegister == "POST /register"
AdminRegister == "POST /services"
AdminDeregister == "DELETE /services/:id"
AdminList == "GET /services"
AdminGet == "GET /services/:id"
AdminHealthLogs == "GET /services/:id/health-logs"
\* the routes of the group that uses authMiddleware and adminMiddleware
ADMIN_ENDPOINTS == {AdminRegister, AdminDeregister, AdminList, AdminGet, AdminHealthLogs}
\* the route of user.RegisterRoutes that uses authMiddleware alone
PasswordChange == "PUT /users/:id/password"
\* the routes whose chain starts with authMiddleware
AUTH_ENDPOINTS == ADMIN_ENDPOINTS \cup {PasswordChange}
ENDPOINTS == AUTH_ENDPOINTS \cup {PublicRegister}
\* the user IDs Aegis knows
USERIDS == {"u1", "u2"}
\* the Authorization header: absent, not of the form "Bearer <token>", or a bearer token
HEADERS == {"none", "malformed", "bearer"}
\* what the call of Aegis comes to: the POST fails, the body cannot be read, the
\* body is not the JSON of a response, valid = false, valid = true with a user,
\* valid = true without one
ANSWERS == {"unreachable", "unreadable", "undecodable", "invalid", "valid", "nouser"}
\* the role lists a user can carry
ROLESETS == SUBSET {"admin", "Admin"}
\* the text the registration handlers compare the error of Register with
\* the values of the query parameter limit, as sequences of characters; the empty
\* one is also what c.Query returns when the parameter is absent
DIGITS == {"0", "1"}
QUERYCHARS == DIGITS \cup {"-", "x"}
QUERIES == UNION {[1..n -> QUERYCHARS] : n \in 0..MaxQueryLen}

DuplicateMessage == "service with this name, host, and port already exists"

NoReq == [pc |-> "idle", endpoint |-> "none", header |-> "none", answer |-> "none",
          roles |-> {}, probe |-> "none", ran |-> FALSE, code |-> 0, error |-> "none",
          count |-> 0, user |-> "none", target |-> "none", forwarded |-> FALSE,
          service |-> 0, query |-> <<>>, logs |-> <<>>]

\* ------------------------------------------------------------- helpers
Created == DOMAIN obj
Triple(o) == <<o.name, o.host, o.port>>
SeqRemoveAt(s, i) == SubSeq(s, 1, i - 1) \o SubSeq(s, i + 1, Len(s))
SeqToSet(s) == {s[i] : i \in 1..Len(s)}
FirstIndex(s, x) == CHOOSE i \in 1..Len(s) : s[i] = x /\ \A j \in 1..(i - 1) : s[j] # x

\* ------------------------------------------------------ registry lock
\* the goroutines that call the registry: the loop of Start, a check goroutine,
\* the handler of a management request, the handler of a /route request
StartG == <<"start", 0, 0>>
CheckG(id, t) == <<"check", id, t>>
HandlerG == <<"handler", 0, 0>>
RouteG == <<"route", 0, 0>>

\* sync.RWMutex: r.mu.RLock() / r.mu.Lock() wait until the lock can be taken
CanRLock(m) == \A h \in m : h[2] # "exclusive"
CanLock(m) == m = {}
RLock(m, g) == m \cup {<<g, "shared">>}
Lock(m, g) == m \cup {<<g, "exclusive">>}

\* variant of the release: the shared lock is kept after the method returned
RUnlockNever(m, g) == m

\* defer r.mu.RUnlock() / defer r.mu.Unlock(): run when the registry method returns
RUnlock(m, g) == m \ {<<g, "shared">>}
Unlock(m, g) == m \ {<<g, "exclusive">>}

\* a registry method run by goroutine g from its RLock / Lock to its return
Shared(g) == CanRLock(mu) /\ mu' = RUnlock(RLock(mu, g), g)
Exclusive(g) == CanLock(mu) /\ mu' = Unlock(Lock(mu, g), g)

\* the locks goroutine g holds
Holds(g) == {h \in mu : h[1] = g}

\* service.NewService
NewService(id, name, host, port) ==
    [name |-> name, host |-> host, port |-> port, status |-> StatusHealthy,
     fc |-> 0, lca |-> now]

\* service.MarkHealthy on a record value, run without interruption
MarkHealthy(o) == [o EXCEPT !.status = StatusHealthy, !.fc = 0, !.lca = now]

\* variants of the comparison: strictly above the threshold; one failure early;
\* any failure
ThresholdExceeded(fc, threshold) == fc > threshold
ThresholdNear(fc, threshold) == fc + 1 >= threshold
ThresholdIgnored(fc, threshold) == fc >= 1

\* the comparison of MarkUnhealthy
ThresholdReached(fc, threshold) == fc >= threshold

\* service.MarkUnhealthy on a record value, run without interruption
MarkUnhealthy(o, threshold) ==
    LET n == o.fc + 1 IN
    [o EXCEPT !.fc = n, !.lca = now,
              !.status = IF ThresholdReached(n, threshold) THEN StatusUnhealthy ELSE o.status]

\* ------------------------------------------------------ persistence
\* a row of table services (the columns protocol, health_check_path, metadata and
\* registered_at are copied to and from the record unchanged: left out)
DbRow(o, status) ==
    [name |-> o.name, host |-> o.host, port |-> o.port, status |-> status, fc |-> o.fc,
     lca |-> o.lca]

\* saveToDatabase: INSERT INTO services; the primary key and UNIQUE(name,host,port)
\* reject the row, and the store may fail the statement (storeOk = FALSE)
SaveToDatabase(db, id, o, storeOk) ==
    IF storeOk /\ id \notin DOMAIN db
       /\ \A k \in DOMAIN db : Triple(db[k]) # Triple(o)
    THEN (id :> DbRow(o, o.status)) @@ db
    ELSE db

\* variant of deleteFromDatabase: the statement deletes nothing
DeleteFromDatabaseKeep(db, id, storeOk) == db

\* deleteFromDatabase: DELETE FROM services WHERE id = ?
DeleteFromDatabase(db, id, storeOk) ==
    IF storeOk THEN [k \in DOMAIN db \ {id} |-> db[k]] ELSE db

\* variant of updateStatusInDatabase: the status column alone is written
UpdateStatusOnlyInDatabase(db, id, o, status, storeOk) ==
    IF storeOk /\ id \in DOMAIN db
    THEN [db EXCEPT ![id].status = status]
    ELSE db

\* updateStatusInDatabase: UPDATE services SET status, last_checked_at, failure_count
UpdateStatusInDatabase(db, id, o, status, storeOk) ==
    IF storeOk /\ id \in DOMAIN db
    THEN [db EXCEPT ![id].status = status, ![id].fc = o.fc, ![id].lca = o.lca]
    ELSE db

\* ON DELETE CASCADE of health_check_logs.service_id, which the connection that
\* runs the DELETE applies only if it enforces foreign keys (fk)
CascadeLogs(logs, db, dbAfter, fk) ==
    [k \in IDS |-> IF fk /\ k \in DOMAIN db /\ k \notin DOMAIN dbAfter THEN <<>> ELSE logs[k]]

\* variant of Repository.Create: no row is written
CreateLogNone(logs, db, id, status, storeOk, fk) == logs

\* healthlog.Repository.Create: INSERT INTO health_check_logs; on a connection that
\* enforces foreign keys (fk) a service_id that has no services row is rejected
CreateLog(logs, db, id, status, storeOk, fk) ==
    IF storeOk /\ (fk => id \in DOMAIN db)
    THEN [logs EXCEPT ![id] = Append(@, now)]
    ELSE logs

\* ORDER BY checked_at DESC
RECURSIVE NewestFirst(_)
NewestFirst(rows) ==
    IF rows = <<>> THEN <<>>
    ELSE LET i == CHOOSE i \in 1..Len(rows) : \A j \in 1..Len(rows) : rows[j] <= rows[i]
         IN <<rows[i]>> \o NewestFirst(SeqRemoveAt(rows, i))

\* LIMIT ?: a negative limit is no limit
LimitRows(rows, limit) ==
    IF limit < 0 \/ Len(rows) <= limit THEN rows ELSE SubSeq(rows, 1, limit)

\* healthlog.Repository.GetByServiceID: the rows SELECT ... WHERE service_id = ?
\* ORDER BY checked_at DESC LIMIT ? returns
GetByServiceID(logs, id, limit) == LimitRows(NewestFirst(logs[id]), limit)

\* ------------------------------------------------------ registry reads
\* ServiceRegistry.List (as a set: map iteration order is unspecified)
List == services

\* ServiceRegistry.GetByID
GetByID(id) == IF id \in services THEN OK ELSE NotFound

\* ServiceRegistry.GetByName: the instances, or the error when there are none
GetByName(name) ==
    IF name \notin byNameKeys \/ Len(byName[name]) = 0
    THEN [instances |-> <<>>, err |-> "no instances found for service"]
    ELSE [instances |-> byName[name], err |-> OK]

\* variant of the filter: every record that is not draining
IsNotDraining(o) == o.status # StatusDraining

\* the filter of GetHealthy
IsHealthy(o) == o.status = StatusHealthy

\* ServiceRegistry.GetHealthy
GetHealthy(name) == SelectSeq(byName[name], LAMBDA id : IsHealthy(obj[id]))

\* ------------------------------------------------------ registry writes
\* variants of the duplicate test: the host comparison inverted; the name alone
SameAddressOtherHost(a, b) == a.name = b.name /\ a.host # b.host /\ a.port = b.port
SameAddressNameOnly(a, b) == a.name = b.name

\* the duplicate test of Register
SameAddress(a, b) == a.name = b.name /\ a.host = b.host /\ a.port = b.port

\* variant of the checks of Register: one error kind for both rejections
RegisterErrOneKind(id) ==
    IF id \in services \/ \E e \in services : SameAddress(obj[e], obj[id])
    THEN AlreadyRegistered
    ELSE OK

\* the error Register returns for object id
RegisterErr(id) ==
    IF id \in services THEN AlreadyRegistered
    ELSE IF \E e \in services : SameAddress(obj[e], obj[id]) THEN DuplicateAddress
    ELSE OK

\* the capacity append gives the slice it allocates for a full slice of capacity
\* c (runtime growslice on small slices of pointers: 0, 1, 2, 4)
GrowCap(c) == IF c = 0 THEN 1 ELSE 2 * c

\* cap(r.byName[name]) after append(r.byName[name], svc) in Register
CapAfterAppend(name) ==
    IF Len(byName[name]) < byNameCap[name] THEN byNameCap[name]
    ELSE GrowCap(byNameCap[name])

\* the capacity of a slice built from nil by k appends, as loadFromDatabase does
RECURSIVE CapAfterAppends(_)
CapAfterAppends(k) ==
    IF k = 0 THEN 0
    ELSE LET c == CapAfterAppends(k - 1) IN IF k - 1 < c THEN c ELSE GrowCap(c)

\* append(r.byName[name], svc) in Register, seen through a held slice: with room
\* left the element is written into the shared backing array, otherwise the
\* index moves to a new array and the held slice keeps the old one
HeldAfterAppend(h, name, id) ==
    IF h.name # name \/ ~h.aliased THEN h
    ELSE IF Len(byName[name]) < byNameCap[name]
         THEN IF Len(byName[name]) < Len(h.elems)
              THEN [h EXCEPT !.elems[Len(byName[name]) + 1] = id]
              ELSE h
         ELSE [h EXCEPT !.aliased = FALSE]

\* append(instances[:i], instances[i+1:]...) in Deregister, seen through a held
\* slice: the elements behind position i move down one place in the shared
\* backing array, whose last place keeps its value; kept tells whether the key
\* stays in the map
HeldAfterRemove(h, name, after, kept) ==
    IF h.name # name \/ ~h.aliased THEN h
    ELSE [h EXCEPT !.elems = [k \in 1..Len(h.elems) |->
                                IF k <= Len(after) THEN after[k] ELSE h.elems[k]],
                   !.aliased = kept]

\* variant of Register: the record is kept only if the INSERT was applied
RegisterRollback(id, storeOk) ==
    LET db == SaveToDatabase(dbServices, id, obj[id], storeOk)
        err == IF RegisterErr(id) # OK THEN RegisterErr(id)
               ELSE IF db = dbServices THEN "failed to persist" ELSE OK IN
    /\ ret' = [op |-> "register", id |-> id, err |-> err,
               stored |-> IF RegisterErr(id) # OK THEN NotIssued
                          ELSE IF db # dbServices THEN Applied ELSE Failed]
    /\ IF err = OK
       THEN /\ services' = services \cup {id}
            /\ byName' = [byName EXCEPT ![obj[id].name] = Append(@, id)]
            /\ byNameKeys' = byNameKeys \cup {obj[id].name}
            /\ byNameCap' = [byNameCap EXCEPT ![obj[id].name] = CapAfterAppend(obj[id].name)]
            /\ held' = HeldAfterAppend(held, obj[id].name, id)
            /\ dbServices' = db
       ELSE UNCHANGED <<services, byName, byNameKeys, byNameCap, held, dbServices>>

\* ServiceRegistry.Register, under the exclusive lock
Register(id, storeOk) ==
    LET err == RegisterErr(id) IN
    /\ ret' = [op |-> "register", id |-> id, err |-> err,
               stored |-> IF err # OK THEN NotIssued
                          ELSE IF SaveToDatabase(dbServices, id, obj[id], storeOk) # dbServices
                          THEN Applied ELSE Failed]
    /\ IF err = OK
       THEN /\ services' = services \cup {id}
            /\ byName' = [byName EXCEPT ![obj[id].name] = Append(@, id)]
            /\ byNameKeys' = byNameKeys \cup {obj[id].name}
            /\ byNameCap' = [byNameCap EXCEPT ![obj[id].name] = CapAfterAppend(obj[id].name)]
            /\ held' = HeldAfterAppend(held, obj[id].name, id)
            /\ dbServices' = SaveToDatabase(dbServices, id, obj[id], storeOk)
       ELSE UNCHANGED <<services, byName, byNameKeys, byNameCap, held, dbServices>>

\* variant of the removal from the name index: the slice is left as it is
RemoveInstanceKeep(instances, id) == instances

\* the removal from the name index in Deregister
RemoveInstance(instances, id) ==
    IF id \in SeqToSet(instances)
    THEN SeqRemoveAt(instances, FirstIndex(instances, id))
    ELSE instances

\* variant of the clean-up in Deregister: the empty name entry stays in the map
CleanUpNever(keys, index, name) == keys

\* "Clean up empty name entry" in Deregister: delete(r.byName, svc.Name)
CleanUp(keys, index, name) ==
    IF Len(index[name]) = 0 THEN keys \ {name} ELSE keys

\* ServiceRegistry.Deregister, under the exclusive lock
Deregister(id, storeOk, fk) ==
    IF id \notin services
    THEN /\ ret' = [op |-> "deregister", id |-> id, err |-> NotFound, stored |-> NotIssued]
         /\ UNCHANGED <<services, byName, byNameKeys, byNameCap, held, dbServices, dbLogs>>
    ELSE /\ ret' = [op |-> "deregister", id |-> id, err |-> OK,
                    stored |-> IF storeOk THEN Applied ELSE Failed]
         /\ services' = services \ {id}
         /\ byName' = [byName EXCEPT ![obj[id].name] = RemoveInstance(@, id)]
         /\ byNameKeys' = CleanUp(byNameKeys, byName', obj[id].name)
         /\ byNameCap' = [byNameCap EXCEPT ![obj[id].name] =
                            IF obj[id].name \in byNameKeys' THEN @ ELSE 0]
         /\ held' = HeldAfterRemove(held, obj[id].name, byName'[obj[id].name],
                                    obj[id].name \in byNameKeys')
         /\ dbServices' = DeleteFromDatabase(dbServices, id, storeOk)
         /\ dbLogs' = CascadeLogs(dbLogs, dbServices, dbServices', fk)

\* variant of UpdateStatus: no lookup of the ID, the row written back if missing
UpdateStatusUpsert(id, status, storeOk) ==
    /\ ret' = [op |-> "update_status", id |-> id, err |-> OK,
                    stored |-> IF storeOk THEN Applied ELSE Failed]
    /\ obj' = [obj EXCEPT ![id].status = status]
    /\ dbServices' = IF storeOk
                     THEN (id :> DbRow(obj'[id], status)) @@
                          [k \in DOMAIN dbServices \ {id} |-> dbServices[k]]
                     ELSE dbServices

\* ServiceRegistry.UpdateStatus, under the exclusive lock
UpdateStatus(id, status, storeOk) ==
    IF id \notin services
    THEN /\ ret' = [op |-> "update_status", id |-> id, err |-> NotFound, stored |-> NotIssued]
         /\ UNCHANGED <<obj, dbServices>>
    ELSE /\ ret' = [op |-> "update_status", id |-> id, err |-> OK,
                    stored |-> IF storeOk THEN Applied ELSE Failed]
         /\ obj' = [obj EXCEPT ![id].status = status]
         /\ dbServices' = UpdateStatusInDatabase(dbServices, id, obj'[id], status, storeOk)

\* ------------------------------------------------------------ initial state
\* main: an empty store, NewServiceRegistry loads nothing, the checker not yet ticked
InitRest(f, ids, ticks, inflight, routes, restarts, conns, auth) ==
    /\ now = 0
    /\ failureThreshold \in 1..MaxThreshold
    /\ obj = <<>>
    /\ life = [i \in IDS |-> "none"]
    /\ services = {}
    /\ byName = [n \in NAMES |-> <<>>]
    /\ byNameKeys = {}
    /\ byNameCap = [n \in NAMES |-> 0]
    /\ held = NoHeld
    /\ dbServices = <<>>
    /\ dbLogs = [i \in IDS |-> <<>>]
    /\ probes = [i \in IDS |-> [t \in TICKS |-> NoProbe]]
    /\ ret = NoRet
    /\ lastDone = [i \in IDS |-> "none"]
    /\ streak = [i \in IDS |-> -1]
    /\ rt = NoRoute
    /\ readView = NoView
    /\ faulty = f
    /\ limits = [ids |-> ids, ticks |-> ticks, inflight |-> inflight, routes |-> routes,
                 restarts |-> restarts, conns |-> conns, auth |-> auth]
    /\ boots = 0
    /\ pooled = FALSE
    /\ req = NoReq
    /\ mu = {}

InitWith(f, ids, ticks, inflight, routes, restarts, conns, auth) ==
    /\ InitRest(f, ids, ticks, inflight, routes, restarts, conns, auth)
    /\ px = NoPx
    /\ hc = Started

Init == InitWith(FALSE, MaxIds, MaxTicks, MaxInFlight, 0, 0, 1, FALSE)
InitChecker == InitWith(FALSE, MaxProbedIds, MaxProbeTicks, MaxProbesInFlight, 0, 0, 1, FALSE)
InitFaults == InitWith(TRUE, MaxProbedIds, MaxProbeTicks, MaxProbesInFlight, 0, 0, 1, FALSE)
InitRoute == InitWith(FALSE, MaxRouteIds, 0, 0, MaxRoutes, 0, 1, FALSE)
\* runs with restarts, over a sound store or over one that may fail
InitRestart ==
    \E f \in BOOLEAN :
        InitWith(f, MaxRestartIds, MaxRestartTicks, MaxRestartInFlight, 0, MaxRestarts, 1, FALSE)
\* runs in which every management request passes the middleware chain of its route
InitAuth == InitWith(FALSE, MaxAuthIds, 0, 0, 0, 0, 1, TRUE)
\* runs of the proxy on one inbound request
InitProxy ==
    /\ InitRest(FALSE, 0, 0, 0, 0, 0, 1, FALSE)
    /\ px \in {[NoPx EXCEPT !.pc = "received", !.original = o] : o \in ORIGINALS}
    /\ hc = Started
\* runs in which the pool may open further connections, over a sound store or over
\* one that may fail
InitLogs ==
    \E f \in BOOLEAN :
        InitWith(f, MaxLogIds, MaxLogTicks, MaxLogInFlight, 0, 0, MaxConns, FALSE)

\* the IDs a management request names in its path: those the run can create, and
\* in a run that creates fewer than MaxIds the absent ones up to MaxIds
REQIDS == 1..Max(limits.ids, MaxIds)

\* the answers the store can give to a statement: applied, or (a faulty store) failed
StoreAnswers == IF faulty THEN BOOLEAN ELSE {TRUE}

\* the check goroutines that have not returned
InFlight(p) == p.pc # "none"
ProbesInFlight(id) == {t \in TICKS : InFlight(probes[id][t])}
AllInFlight == {pt \in IDS \X TICKS : InFlight(probes[pt[1]][pt[2]])}

\* ------------------------------------------------------ connection pool
\* database.Initialize opens a pooled sql.DB and runs PRAGMA foreign_keys = ON once,
\* on the one connection the pool has then.  The pool opens a further connection
\* for a statement issued while every open one is in use, and that connection never
\* ran the PRAGMA.  A goroutine is named <<id, tick>> (a check) or <<id, 0>> (the
\* request that registers id); <<0, 0>> is any other request.
\* the positions from which the next step of a check goroutine may be a statement
StatementPcs == {"http", "upd", "log_ok"}

\* some goroutine other than self may be running a statement now
Busy(self) ==
    \/ \E pt \in AllInFlight : pt # self /\ probes[pt[1]][pt[2]].pc \in StatementPcs
    \/ \E i \in Created : life[i] = "pending" /\ <<i, 0>> # self

\* whether the connection that runs a statement of self enforces foreign keys
FkAnswers(self) ==
    IF limits.conns >= 2 /\ (pooled \/ Busy(self)) THEN BOOLEAN ELSE {TRUE}

\* the pool after a statement ran on a connection with foreign keys on or off
PoolAfter(fk) == pooled \/ ~fk

\* ------------------------------------------------------ middleware chain
\* In the runs without the chain (limits.auth = FALSE) every management request is
\* taken as admitted and its reply is not kept.
\* the request in progress has reached the handler of one of the routes
Admitted(endpoints) == limits.auth => (req.pc = "handler" /\ req.endpoint \in endpoints)

\* c.JSON(code, ...) by a handler, which then returns
Replies(code, error) ==
    req' = IF limits.auth
           THEN [req EXCEPT !.pc = "done", !.ran = TRUE, !.code = code, !.error = error]
           ELSE req

\* c.JSON(code, ...) and c.Abort() by a middleware
Aborts(r, code, error) == [r EXCEPT !.pc = "done", !.code = code, !.error = error]

\* a step that writes nothing but the request
QuietRead ==
    /\ ret' = NoRet
    /\ readView' = NoView
    /\ UNCHANGED <<now, failureThreshold, regVars, byNameKeys, byNameCap, held, probes, lastDone, streak, rt, faulty,
                   limits, px, hc, boots, pooled>>

\* a step that touches nothing but the request
Quiet == QuietRead /\ UNCHANGED mu

\* gin starts the chain of the matched route; on a route of the /services group
\* that is AuthMiddleware, here up to its call of ValidateToken
Dispatch(endpoint, header) ==
    LET r == [NoReq EXCEPT !.endpoint = endpoint, !.header = header] IN
    /\ limits.auth
    /\ req.pc \in {"idle", "done"}
    /\ req' = IF endpoint \notin AUTH_ENDPOINTS THEN [r EXCEPT !.pc = "handler"]
              ELSE IF header = "none" THEN Aborts(r, 401, "missing authorization token")
              ELSE IF header = "malformed"
              THEN Aborts(r, 401, "invalid authorization header")
              ELSE [r EXCEPT !.pc = "validate"]
    /\ Quiet

\* variant of ValidateToken: a failed call is reported as an invalid token
ValidateTokenNoError(answer) ==
    [err |-> FALSE, valid |-> answer \in {"valid", "nouser"}, user |-> answer = "valid"]

\* AegisClient.ValidateToken: an error when the POST, the read of the body or the
\* decoding fails (the status code of the response is not looked at), else the
\* decoded response
ValidateToken(answer) ==
    [err |-> answer \in {"unreachable", "unreadable", "undecodable"},
     valid |-> answer \in {"valid", "nouser"},
     user |-> answer = "valid"]

\* AuthMiddleware from the return of ValidateToken on.  resp.User.ID with no user
\* in the response is a nil dereference: gin.Recovery answers 500 and aborts.
AuthMiddleware(answer, roles, user) ==
    LET resp == ValidateToken(answer)
        r == [req EXCEPT !.answer = answer] IN
    /\ req.pc = "validate"
    /\ roles \in (IF answer = "valid" THEN ROLESETS ELSE {{}})
    /\ user \in (IF answer = "valid" THEN USERIDS ELSE {"none"})
    /\ req' = IF resp.err THEN Aborts(r, 500, "authentication service unavailable")
              ELSE IF ~resp.valid THEN Aborts(r, 401, "invalid or expired token")
              ELSE IF ~resp.user THEN Aborts(r, 500, "none")
              ELSE [r EXCEPT !.pc = IF req.endpoint \in ADMIN_ENDPOINTS
                                     THEN "admin" ELSE "handler",
                             !.roles = roles, !.user = user]
    /\ Quiet

\* variant of the role test: any role will do
IsAdminAnyRole(roles) == roles # {}

\* the role test of RequireAdmin
IsAdmin(roles) == "admin" \in roles

\* RequireAdmin
RequireAdmin ==
    /\ req.pc = "admin"
    /\ req' = IF IsAdmin(req.roles) THEN [req EXCEPT !.pc = "handler"]
              ELSE Aborts(req, 403, "admin access required")
    /\ Quiet

\* ------------------------------------------------- registration handlers
\* what checkServiceHealth returns: the transport error, or the error of reading
\* the body when the status is outside [200,300), or nil after a 2xx
CheckServiceHealthFails(outcome, bodyOk) ==
    \/ outcome = "neterr"
    \/ outcome = "bad" /\ ~bodyOk

\* the audit status checkServiceHealth writes
HandlerLogStatus(outcome) == IF outcome = "ok" THEN "healthy" ELSE "unhealthy"

\* handleRegisterService / handleSelfRegister up to the call of Register:
\* service.NewService with a fresh UUID, then checkServiceHealth on the new object
HandlerProbe(name, host, port, outcome, bodyOk, storeOk, fk) ==
    LET id == Cardinality(Created) + 1
        svc == NewService(id, name, host, port) IN
    /\ id <= limits.ids
    /\ Admitted({PublicRegister, AdminRegister})
    /\ limits.auth => req.probe = "none"
    /\ req' = IF limits.auth THEN [req EXCEPT !.ran = TRUE, !.probe = outcome] ELSE req
    /\ fk \in FkAnswers(<<id, 0>>)
    /\ pooled' = PoolAfter(fk)
    /\ dbLogs' = CreateLog(dbLogs, dbServices, id, HandlerLogStatus(outcome), storeOk, fk)
    /\ obj' = (id :> IF CheckServiceHealthFails(outcome, bodyOk)
                     THEN [svc EXCEPT !.status = StatusUnhealthy]
                     ELSE svc) @@ obj
    /\ life' = [life EXCEPT ![id] = "pending"]
    /\ ret' = NoRet
    /\ readView' = NoView
    /\ UNCHANGED <<now, failureThreshold, services, byName, byNameKeys, byNameCap, held, dbServices,
                   probes, lastDone, streak, rt, faulty, limits, px, hc, mu, boots>>

\* the status the registration handlers answer with after Register returned err
RegisterReply(err) ==
    IF err = OK THEN 201
    ELSE IF err = DuplicateMessage THEN 409
    ELSE 400

\* h.registry.Register(svc) in handleRegisterService / handleSelfRegister, and
\* the reply
HandlerRegister(id, storeOk, fk) ==
    /\ id \in Created
    /\ life[id] = "pending"
    /\ Admitted({PublicRegister, AdminRegister})
    /\ fk \in (IF RegisterErr(id) = OK THEN FkAnswers(<<id, 0>>) ELSE {TRUE})
    /\ pooled' = PoolAfter(fk)
    /\ Register(id, storeOk)
    /\ Replies(RegisterReply(ret'.err), IF ret'.err = OK THEN "none" ELSE ret'.err)
    /\ life' = [life EXCEPT ![id] = IF ret'.err = OK THEN "registered" ELSE "rejected"]
    /\ streak' = [streak EXCEPT ![id] =
                    IF ret'.err = OK /\ obj[id].status = StatusHealthy /\ obj[id].fc = 0
                    THEN 0 ELSE -1]
    /\ readView' = NoView
    /\ Exclusive(HandlerG)
    /\ UNCHANGED <<now, failureThreshold, obj, dbLogs, probes, lastDone, rt, faulty, limits, px, hc, boots>>

\* handleDeregisterService: DELETE /services/:id with any id
HandlerDeregister(id, storeOk, fk) ==
    /\ Admitted({AdminDeregister})
    /\ fk \in (IF id \in services THEN FkAnswers(<<0, 0>>) ELSE {TRUE})
    /\ pooled' = PoolAfter(fk)
    /\ Deregister(id, storeOk, fk)
    /\ Replies(IF ret'.err = OK THEN 200 ELSE 404, IF ret'.err = OK THEN "none" ELSE ret'.err)
    /\ life' = [life EXCEPT ![id] = IF ret'.err = OK THEN "deregistered" ELSE @]
    /\ readView' = NoView
    /\ Exclusive(HandlerG)
    /\ UNCHANGED <<now, failureThreshold, obj, probes, lastDone, streak, rt, faulty, limits, px, hc, boots>>

\* ------------------------------------------------------- health checker
\* the probe of id launched at tick t has overlapped no other probe of id
Alone(id, t) == ProbesInFlight(id) = {t} /\ (streak[id] >= 0 \/ now = 1)

\* the cases of the select of Start that can proceed: ticker.C once the interval
\* has elapsed, stopChan once it is closed
TickCase(h) == h.pc = "select" /\ h.ticker = "running"
StopCaseAlways(h) == h.pc = "select"
StopCase(h) == h.pc = "select" /\ h.stopChan = "closed"

\* a step of the checker's lifecycle: nothing but hc changes
LifeStep(h) ==
    /\ hc' = h
    /\ UNCHANGED <<now, failureThreshold, regVars, byNameKeys, byNameCap, held, probes, ret, lastDone, streak, rt,
                   readView, faulty, limits, boots, pooled, req, px, mu>>

\* HealthChecker.Start up to its select: time.NewTicker, defer ticker.Stop()
StartBegins ==
    /\ hc.pc = "new"
    /\ LifeStep([hc EXCEPT !.pc = "select", !.ticker = "running"])

\* HealthChecker.Start: the select takes <-c.stopChan, Start returns and the
\* deferred ticker.Stop() runs
StartReturns ==
    /\ StopCase(hc)
    /\ LifeStep([hc EXCEPT !.pc = "returned", !.ticker = "stopped"])

\* HealthChecker.Stop: close(c.stopChan), which panics on a closed channel
Stop ==
    /\ hc.stops + hc.panics < MaxStops
    /\ LifeStep(IF hc.stopChan = "open"
                THEN [hc EXCEPT !.stopChan = "closed", !.stops = @ + 1]
                ELSE [hc EXCEPT !.panics = @ + 1])

\* HealthChecker.Start on a tick: checkAll lists the registry and starts one
\* check goroutine per record
Tick ==
    /\ TickCase(hc)
    /\ now < limits.ticks
    /\ Cardinality(AllInFlight) + Cardinality(List) <= limits.inflight
    /\ now' = now + 1
    /\ probes' = [i \in IDS |->
                    IF i \in List
                    THEN [probes[i] EXCEPT ![now + 1] = [NoProbe EXCEPT !.pc = "http"]]
                    ELSE probes[i]]
    /\ streak' = [i \in IDS |->
                    IF i \in List /\ ProbesInFlight(i) # {} THEN -1 ELSE streak[i]]
    /\ ret' = NoRet
    /\ readView' = NoView
    /\ Shared(StartG)
    /\ UNCHANGED <<failureThreshold, obj, life, services, byName, byNameKeys, byNameCap, held, dbServices, dbLogs,
                   lastDone, rt, faulty, limits, px, hc, boots, pooled, req>>

SetProbe(id, t, p) == probes' = [probes EXCEPT ![id][t] = p]
ObjTriple(o) == <<o.status, o.fc, o.lca>>
NoPre == <<"none", 0, 0>>

\* a step of the probe goroutine that touches only the record object
ObjStep(id, t, from, to, newObj, fcTmp, stTmp, pre) ==
    /\ probes[id][t].pc = from
    /\ obj' = [obj EXCEPT ![id] = newObj]
    /\ SetProbe(id, t, [probes[id][t] EXCEPT !.pc = to, !.fcTmp = fcTmp,
                          !.stTmp = stTmp, !.pre = pre])
    /\ ret' = NoRet
    /\ readView' = NoView
    /\ UNCHANGED <<now, failureThreshold, life, services, byName, byNameKeys, byNameCap, held, dbServices, dbLogs,
                   lastDone, streak, rt, faulty, limits, px, hc, mu, boots, pooled, req>>

\* check: a 2xx response arrives; MarkHealthy: s.Status = StatusHealthy
MhStatus(id, t) ==
    /\ probes[id][t].pc = "http"
    /\ obj' = [obj EXCEPT ![id].status = StatusHealthy]
    /\ SetProbe(id, t, [probes[id][t] EXCEPT !.pc = "mh_fc", !.outcome = "ok",
                          !.pre = ObjTriple(obj[id])])
    /\ ret' = NoRet
    /\ readView' = NoView
    /\ UNCHANGED <<now, failureThreshold, life, services, byName, byNameKeys, byNameCap, held, dbServices, dbLogs,
                   lastDone, streak, rt, faulty, limits, px, hc, mu, boots, pooled, req>>

\* MarkHealthy: s.FailureCount = 0
MhFc(id, t) ==
    LET p == probes[id][t] IN
    ObjStep(id, t, "mh_fc", "mh_lca", [obj[id] EXCEPT !.fc = 0], p.fcTmp, p.stTmp, p.pre)

\* MarkHealthy: s.LastCheckedAt = time.Now()
MhLca(id, t) ==
    LET p == probes[id][t] IN
    ObjStep(id, t, "mh_lca", "arg", [obj[id] EXCEPT !.lca = now], p.fcTmp, p.stTmp, NoPre)

\* the audit status check writes
ProbeLogStatus(outcome) ==
    IF outcome = "reqerr" THEN "error"
    ELSE IF outcome = "ok" THEN "healthy" ELSE "unhealthy"

\* check: the request cannot be built, or fails, or is answered outside [200,300);
\* logHealthCheck before handleFailure
LogFailure(id, t, outcome, storeOk, fk) ==
    LET p == probes[id][t] IN
    /\ p.pc = "http"
    /\ outcome \in FAILURES
    /\ fk \in FkAnswers(<<id, t>>)
    /\ pooled' = PoolAfter(fk)
    /\ dbLogs' = CreateLog(dbLogs, dbServices, id, ProbeLogStatus(outcome), storeOk, fk)
    /\ SetProbe(id, t, [p EXCEPT !.pc = "mu_read", !.outcome = "fail"])
    /\ ret' = NoRet
    /\ readView' = NoView
    /\ UNCHANGED <<now, failureThreshold, obj, life, services, byName, byNameKeys, byNameCap, held, dbServices,
                   lastDone, streak, rt, faulty, limits, px, hc, mu, boots, req>>

\* MarkUnhealthy: s.FailureCount++ reads the count
MuRead(id, t) ==
    LET p == probes[id][t] IN
    ObjStep(id, t, "mu_read", "mu_write", obj[id], obj[id].fc, p.stTmp, ObjTriple(obj[id]))

\* MarkUnhealthy: s.FailureCount++ writes the count
MuWrite(id, t) ==
    LET p == probes[id][t] IN
    ObjStep(id, t, "mu_write", "mu_lca", [obj[id] EXCEPT !.fc = p.fcTmp + 1],
            0, p.stTmp, p.pre)

\* MarkUnhealthy: s.LastCheckedAt = time.Now()
MuLca(id, t) ==
    LET p == probes[id][t] IN
    ObjStep(id, t, "mu_lca", "mu_cmp", [obj[id] EXCEPT !.lca = now], p.fcTmp, p.stTmp, p.pre)

\* MarkUnhealthy: if s.FailureCount >= threshold
MuCompare(id, t) ==
    LET p == probes[id][t]
        reached == ThresholdReached(obj[id].fc, failureThreshold) IN
    ObjStep(id, t, "mu_cmp", IF reached THEN "mu_status" ELSE "arg",
            obj[id], IF reached THEN obj[id].fc ELSE 0, p.stTmp, p.pre)

\* MarkUnhealthy: s.Status = StatusUnhealthy
MuStatus(id, t) ==
    LET p == probes[id][t] IN
    ObjStep(id, t, "mu_status", "arg", [obj[id] EXCEPT !.status = StatusUnhealthy],
            0, p.stTmp, p.pre)

\* check / handleFailure: the argument svc.Status of registry.UpdateStatus is read
ReadArg(id, t) ==
    LET p == probes[id][t] IN
    ObjStep(id, t, "arg", "upd", obj[id], p.fcTmp, obj[id].status, NoPre)

\* the probe of id launched at tick t returns.  streak counts the failed probes
\* that ran one after the other since the record was last healthy with count 0 and
\* no probe of it running; a successful probe that overlapped none restarts it
ProbeReturns(id, t) ==
    /\ lastDone' = [lastDone EXCEPT ![id] = probes[id][t].outcome]
    /\ streak' = [streak EXCEPT ![id] =
                    IF probes[id][t].outcome = "ok"
                    THEN (IF @ >= 0 \/ (ProbesInFlight(id) = {t}
                                         /\ obj[id].status = StatusHealthy /\ obj[id].fc = 0)
                          THEN 0 ELSE -1)
                    ELSE (IF @ >= 0 THEN @ + 1 ELSE -1)]

\* check / handleFailure: c.registry.UpdateStatus(svc.ID, svc.Status); after it
\* handleFailure and check return, a healthy probe goes on to its audit row
CallUpdateStatus(id, t, storeOk, fk) ==
    LET p == probes[id][t] IN
    /\ p.pc = "upd"
    /\ fk \in (IF id \in services THEN FkAnswers(<<id, t>>) ELSE {TRUE})
    /\ pooled' = PoolAfter(fk)
    /\ UpdateStatus(id, p.stTmp, storeOk)
    /\ SetProbe(id, t, IF p.outcome = "ok" THEN [p EXCEPT !.pc = "log_ok", !.stTmp = "none"]
                       ELSE NoProbe)
    /\ IF p.outcome = "ok"
       THEN UNCHANGED <<lastDone, streak>>
       ELSE ProbeReturns(id, t)
    /\ readView' = NoView
    /\ Exclusive(CheckG(id, t))
    /\ UNCHANGED <<now, failureThreshold, life, services, byName, byNameKeys, byNameCap, held, dbLogs, rt, faulty, limits, px, hc, boots, req>>

\* a caller of the registry takes a resident record out of rotation:
\* ServiceRegistry.UpdateStatus(id, StatusDraining)
Drain(id, storeOk, fk) ==
    /\ id \in services
    /\ obj[id].status # StatusDraining
    /\ fk \in FkAnswers(<<id, 0>>)
    /\ pooled' = PoolAfter(fk)
    /\ UpdateStatus(id, StatusDraining, storeOk)
    /\ Exclusive(HandlerG)
    /\ readView' = NoView
    /\ UNCHANGED <<now, failureThreshold, life, services, byName, byNameKeys, byNameCap, held, dbLogs, probes, lastDone,
                   streak, rt, faulty, limits, px, hc, boots, req>>

\* check: logHealthCheck of a healthy probe, then check returns
LogHealthy(id, t, storeOk, fk) ==
    LET p == probes[id][t] IN
    /\ p.pc = "log_ok"
    /\ fk \in FkAnswers(<<id, t>>)
    /\ pooled' = PoolAfter(fk)
    /\ dbLogs' = CreateLog(dbLogs, dbServices, id, ProbeLogStatus(p.outcome), storeOk, fk)
    /\ SetProbe(id, t, NoProbe)
    /\ ProbeReturns(id, t)
    /\ ret' = NoRet
    /\ readView' = NoView
    /\ UNCHANGED <<now, failureThreshold, obj, life, services, byName, byNameKeys, byNameCap, held, dbServices, rt,
                   faulty, limits, px, hc, mu, boots, req>>

\* ---------------------------------------------------------------- readers
\* handleGetService / handleListServices: the record as serialised for the client
ReadRecord(id) ==
    /\ id \in services
    /\ Admitted({AdminList, AdminGet})
    /\ Replies(200, "none")
    /\ readView' = [id |-> id, status |-> obj[id].status, fc |-> obj[id].fc,
                    lca |-> obj[id].lca]
    /\ ret' = NoRet
    /\ Shared(HandlerG)
    /\ UNCHANGED <<now, failureThreshold, regVars, byNameKeys, byNameCap, held, probes, lastDone, streak, rt, faulty, limits, px, hc, boots, pooled>>

\* handleRegisterService / handleSelfRegister: c.ShouldBindJSON fails, or the
\* self-registration carries no port
RejectPayload ==
    /\ limits.auth
    /\ Admitted({PublicRegister, AdminRegister})
    /\ req.probe = "none"
    /\ Replies(400, "invalid payload")
    /\ Quiet

\* handleGetService with an unknown id; handleListServices over an empty registry
ReadNone(id) ==
    /\ limits.auth
    /\ \/ /\ Admitted({AdminGet})
          /\ GetByID(id) = NotFound
          /\ Replies(404, NotFound)
       \/ /\ Admitted({AdminList})
          /\ List = {}
          /\ id = 1
          /\ Replies(200, "none")
    /\ Shared(HandlerG)
    /\ QuietRead

\* the value of a decimal digit
DigitValue(c) == CASE c = "0" -> 0 [] c = "1" -> 1

\* the number a run of decimal digits denotes
RECURSIVE Decimal(_)
Decimal(ds) ==
    IF ds = <<>> THEN 0
    ELSE 10 * Decimal(SubSeq(ds, 1, Len(ds) - 1)) + DigitValue(ds[Len(ds)])

\* strconv.Atoi: an optional sign, then one digit or more and nothing else
Atoi(s) ==
    LET signed == Len(s) > 0 /\ s[1] \in {"+", "-"}
        ds == IF signed THEN Tail(s) ELSE s IN
    IF ds = <<>> \/ \E i \in 1..Len(ds) : ds[i] \notin DIGITS
    THEN [err |-> TRUE, value |-> 0]
    ELSE [err |-> FALSE,
          value |-> IF signed /\ s[1] = "-" THEN 0 - Decimal(ds) ELSE Decimal(ds)]

\* variant of the limit rule: any number that parses is taken
QueryLimitAnyNumber(query) ==
    IF query # <<>> /\ ~Atoi(query).err THEN Atoi(query).value ELSE 50

\* handleGetHealthLogs: the limit taken from the query parameter, 50 by default
QueryLimit(query) ==
    IF query # <<>> /\ ~Atoi(query).err /\ Atoi(query).value > 0
    THEN Atoi(query).value
    ELSE 50

\* handleGetHealthLogs
HandlerGetHealthLogs(id, query, storeOk) ==
    /\ limits.auth
    /\ Admitted({AdminHealthLogs})
    /\ storeOk \in (IF GetByID(id) = OK THEN StoreAnswers ELSE {TRUE})
    /\ IF GetByID(id) = NotFound
       THEN req' = [req EXCEPT !.pc = "done", !.ran = TRUE, !.code = 404,
                               !.error = NotFound, !.service = id]
       ELSE IF ~storeOk
       THEN req' = [req EXCEPT !.pc = "done", !.ran = TRUE, !.code = 500,
                               !.error = "failed to retrieve health logs",
                               !.service = id]
       ELSE req' = [req EXCEPT !.pc = "done", !.ran = TRUE, !.code = 200,
                               !.service = id, !.query = query,
                               !.logs = GetByServiceID(dbLogs, id, QueryLimit(query)),
                               !.count = Len(GetByServiceID(dbLogs, id, QueryLimit(query)))]
    /\ Shared(HandlerG)
    /\ QuietRead

\* variant of the rule of handleChangePassword: admins only
MayChangePasswordAdminOnly(user, target, roles) == IsAdmin(roles)

\* the rule of handleChangePassword: one's own password, or any as an admin
MayChangePassword(user, target, roles) == user = target \/ IsAdmin(roles)

\* handleChangePassword for the user target.  bodyOk: readRequestBody succeeds;
\* aegis: what proxyToAegis comes to ("ok", "rejected": a response of Aegis,
\* relayed; "unreachable": httpClient.Do fails, 502)
HandleChangePassword(target, bodyOk, aegis) ==
    LET r == [req EXCEPT !.pc = "done", !.ran = TRUE, !.target = target] IN
    /\ limits.auth
    /\ Admitted({PasswordChange})
    /\ req' = IF ~MayChangePassword(req.user, target, req.roles)
              THEN [r EXCEPT !.code = 403, !.error = "can only change your own password"]
              ELSE IF ~bodyOk
              THEN [r EXCEPT !.code = 400, !.error = "failed to read request"]
              ELSE [r EXCEPT !.forwarded = TRUE,
                             !.code = IF aegis = "ok" THEN 200
                                      ELSE IF aegis = "rejected" THEN 400 ELSE 502,
                             !.error = IF aegis = "unreachable"
                                       THEN "authentication service unavailable"
                                       ELSE "none"]
    /\ Quiet

\* ---------------------------------------------------------------- restart
\* the record loadFromDatabase builds from a row
LoadRow(row) ==
    [name |-> row.name, host |-> row.host, port |-> row.port, status |-> row.status,
     fc |-> row.fc, lca |-> row.lca]

\* the orders in which a SELECT without ORDER BY may return the rows of ids
RowOrders(ids) ==
    {s \in [1..Cardinality(ids) -> ids] : \A i, j \in DOMAIN s : i # j => s[i] # s[j]}

\* the process is killed and started again: main opens the store and
\* NewServiceRegistry -> loadFromDatabase rebuilds both maps from table services;
\* every goroutine and every request of the old process is gone
Restart ==
    /\ boots < limits.restarts
    /\ boots' = boots + 1
    /\ services' = DOMAIN dbServices
    /\ obj' = [i \in DOMAIN obj |->
                 IF i \in DOMAIN dbServices THEN LoadRow(dbServices[i]) ELSE obj[i]]
    /\ \E order \in RowOrders(DOMAIN dbServices) :
          byName' = [n \in NAMES |-> SelectSeq(order, LAMBDA i : dbServices[i].name = n)]
    /\ byNameKeys' = {dbServices[i].name : i \in DOMAIN dbServices}
    /\ byNameCap' = [n \in NAMES |->
                        CapAfterAppends(Cardinality({i \in DOMAIN dbServices :
                                                       dbServices[i].name = n}))]
    /\ held' = NoHeld
    /\ life' = [i \in IDS |->
                  IF i \in DOMAIN dbServices THEN "reloaded"
                  ELSE IF life[i] = "pending" THEN "aborted" ELSE life[i]]
    /\ probes' = [i \in IDS |-> [t \in TICKS |-> NoProbe]]
    /\ lastDone' = [i \in IDS |-> "none"]
    /\ streak' = [i \in IDS |->
                    IF i \in DOMAIN dbServices /\ dbServices[i].status = StatusHealthy
                       /\ dbServices[i].fc = 0
                    THEN 0 ELSE -1]
    /\ rt' = NoRoute
    /\ ret' = NoRet
    /\ readView' = NoView
    /\ pooled' = FALSE
    /\ req' = NoReq
    /\ UNCHANGED <<now, failureThreshold, dbServices, dbLogs, faulty, limits, px, hc>>
    /\ mu' = {}

\* ---------------------------------------------------------------- routing
\* handleRouteToService -> RoutingService.RouteToService: the lookup
\* s.registry.GetHealthy(serviceName), under the shared lock
RouteLookup(name) ==
    /\ rt.pc \in {"idle", "done"}
    /\ rt.n < limits.routes
    /\ rt' = [NoRoute EXCEPT !.pc = "looked", !.n = rt.n + 1, !.name = name,
                             !.instances = GetHealthy(name),
                             !.hadHealthy = \E i \in services :
                                 obj[i].name = name /\ obj[i].status = StatusHealthy]
    /\ ret' = NoRet
    /\ readView' = NoView
    /\ Shared(RouteG)
    /\ UNCHANGED <<now, failureThreshold, regVars, byNameKeys, byNameCap, held, probes, lastDone, streak, faulty, limits, px, hc, boots, pooled, req>>

\* variant of the choice: the last instance
SelectLast(instances) == instances[Len(instances)]

\* the instance RouteToService forwards to
SelectTarget(instances) == instances[1]

\* RouteToService: len(instances) == 0, "no healthy instances available";
\* handleRouteToService answers 503 with the service name
RouteUnavailable ==
    /\ rt.pc = "looked"
    /\ Len(rt.instances) = 0
    /\ rt' = [rt EXCEPT !.pc = "done", !.code = 503,
                        !.error = "service unavailable", !.service = rt.name,
                        !.message = "no healthy instances available"]
    /\ ret' = NoRet
    /\ readView' = NoView
    /\ UNCHANGED <<now, failureThreshold, regVars, byNameKeys, byNameCap, held, probes, lastDone, streak, faulty, limits, px, hc, mu, boots, pooled, req>>

\* RouteToService: s.proxy.ForwardToURL(c, target.BaseURL() + path).  outcome:
\* "parseerr": url.Parse or http.NewRequest failed, nothing is sent;
\* "neterr": client.Do failed; "resp": the backend's response is copied to the client.
\* handleRouteToService answers 503 with the service name for every error.
RouteForward(outcome, backendCode) ==
    /\ rt.pc = "looked"
    /\ Len(rt.instances) # 0
    /\ rt' = [rt EXCEPT !.pc = "done", !.invoked = TRUE,
                        !.target = SelectTarget(rt.instances),
                        !.sent = (outcome # "parseerr"),
                        !.code = IF outcome = "resp" THEN backendCode ELSE 503,
                        !.error = IF outcome = "resp" THEN "none" ELSE "service unavailable",
                        !.service = IF outcome = "resp" THEN "none" ELSE rt.name,
                        !.message = IF outcome = "resp" THEN "none"
                                    ELSE IF outcome = "neterr" THEN "backend request failed"
                                    ELSE "invalid target URL"]
    /\ ret' = NoRet
    /\ readView' = NoView
    /\ UNCHANGED <<now, failureThreshold, regVars, byNameKeys, byNameCap, held, probes, lastDone, streak, faulty, limits, px, hc, mu, boots, pooled, req>>

\* ------------------------------------------------------- proxy request
\* strings.ToLower on a header name
ToLower(k) == [k EXCEPT !.casing = "lower"]

\* textproto.CanonicalMIMEHeaderKey, applied by http.Header.Add and Set
CanonicalKey(k) == [k EXCEPT !.casing = "canonical"]

\* the list hopByHop of isHopByHopHeader, as written in the source
HopByHopList == [word : HopByHopWords, casing : {"canonical"}]

\* variant of isHopByHopHeader: the name compared as it is spelled
IsHopByHopHeaderExact(header) == \E h \in HopByHopList : h = header

\* isHopByHopHeader
IsHopByHopHeader(header) == \E h \in HopByHopList : ToLower(h) = ToLower(header)

\* http.Header.Set
HeaderSet(h, k, v) ==
    [x \in DOMAIN h \cup {CanonicalKey(k)} |-> IF x = CanonicalKey(k) THEN <<v>> ELSE h[x]]

XForwardedFor == [word |-> "x-forwarded-for", casing |-> "canonical"]
XForwardedProto == [word |-> "x-forwarded-proto", casing |-> "canonical"]
XForwardedHost == [word |-> "x-forwarded-host", casing |-> "canonical"]

\* createProxyRequest: the headers copied with Header.Add
CopyHeaders(h) ==
    LET kept == {k \in DOMAIN h : ~IsHopByHopHeader(k)} IN
    [x \in {CanonicalKey(k) : k \in kept} |->
        h[CHOOSE k \in kept : CanonicalKey(k) = x]]

\* createProxyRequest: the header of the request built for the backend
CreateProxyRequest(original) ==
    LET copied == CopyHeaders(original.header)
        for == IF original.remoteAddr # ""
               THEN HeaderSet(copied, XForwardedFor, original.remoteAddr)
               ELSE copied
        proto == HeaderSet(for, XForwardedProto, original.scheme)
        host == IF original.host # ""
                THEN HeaderSet(proto, XForwardedHost, original.host)
                ELSE proto IN
    [header |-> host]

\* ForwardToURL calls createProxyRequest on the inbound request
BuildProxyRequest ==
    /\ px.pc = "received"
    /\ px' = [px EXCEPT !.pc = "built", !.proxyReq = CreateProxyRequest(px.original)]
    /\ UNCHANGED <<now, failureThreshold, regVars, byNameKeys, byNameCap, held, probes, ret, lastDone, streak, rt,
                   readView, faulty, limits, boots, pooled, req, hc, mu>>

\* ------------------------------------------------------------- next state
\* the management requests
Handlers ==
    \/ \E n \in NAMES, h \in HOSTS, p \in PORTS, o \in {"neterr", "ok", "bad"},
          b \in BOOLEAN, s \in StoreAnswers, fk \in BOOLEAN :
          HandlerProbe(n, h, p, o, b, s, fk)
    \/ \E i \in IDS, s \in StoreAnswers, fk \in BOOLEAN : HandlerRegister(i, s, fk)
    \/ \E i \in REQIDS, s \in StoreAnswers, fk \in BOOLEAN : HandlerDeregister(i, s, fk)

\* the health checker's goroutines
Checker ==
    \/ Tick
    \/ \E i \in IDS, t \in TICKS : MhStatus(i, t)
    \/ \E i \in IDS, t \in TICKS : MhFc(i, t)
    \/ \E i \in IDS, t \in TICKS : MhLca(i, t)
    \/ \E i \in IDS, t \in TICKS, o \in FAILURES, s \in StoreAnswers, fk \in BOOLEAN :
          LogFailure(i, t, o, s, fk)
    \/ \E i \in IDS, t \in TICKS : MuRead(i, t)
    \/ \E i \in IDS, t \in TICKS : MuWrite(i, t)
    \/ \E i \in IDS, t \in TICKS : MuLca(i, t)
    \/ \E i \in IDS, t \in TICKS : MuCompare(i, t)
    \/ \E i \in IDS, t \in TICKS : MuStatus(i, t)
    \/ \E i \in IDS, t \in TICKS : ReadArg(i, t)
    \/ \E i \in IDS, t \in TICKS, s \in StoreAnswers, fk \in BOOLEAN :
          CallUpdateStatus(i, t, s, fk)
    \/ \E i \in IDS, t \in TICKS, s \in StoreAnswers, fk \in BOOLEAN : LogHealthy(i, t, s, fk)

\* the /route requests
Routes ==
    \/ \E n \in NAMES : RouteLookup(n)
    \/ RouteUnavailable
    \/ \E o \in {"parseerr", "neterr", "resp"}, c \in {200, 500} : RouteForward(o, c)

Next ==
    \/ Handlers
    \/ Checker
    \/ \E i \in IDS : ReadRecord(i)

NextRoute ==
    \/ Handlers
    \/ Routes

NextRestart ==
    \/ Next
    \/ Restart

\* the management requests, each through the chain of its route
NextAuth ==
    \/ \E e \in ENDPOINTS, h \in HEADERS : Dispatch(e, h)
    \/ \E a \in ANSWERS, r \in ROLESETS, u \in USERIDS \cup {"none"} : AuthMiddleware(a, r, u)
    \/ RequireAdmin
    \/ Handlers
    \/ RejectPayload
    \/ \E i \in IDS : ReadRecord(i)
    \/ \E i \in REQIDS : ReadNone(i)
    \/ \E i \in REQIDS, q \in {<<>>, <<"1">>}, s \in BOOLEAN : HandlerGetHealthLogs(i, q, s)
    \/ \E u \in USERIDS, b \in BOOLEAN, a \in {"ok", "rejected", "unreachable"} :
          HandleChangePassword(u, b, a)

\* the gateway with its checker; Spec has more registrations, SpecChecker more ticks
Spec == Init /\ [][Next]_vars
SpecChecker == InitChecker /\ [][Next]_vars
\* the same over a store that may fail any statement
SpecFaults == InitFaults /\ [][Next]_vars
\* the management requests and /route requests, between two ticks
SpecRoute == InitRoute /\ [][NextRoute]_vars
\* the gateway, killed and restarted at any moment
SpecRestart == InitRestart /\ [][NextRestart]_vars
\* the cloning of a request for a backend
NextProxy == BuildProxyRequest
SpecProxy == InitProxy /\ [][NextProxy]_vars
\* the management API behind its middleware
SpecAuth == InitAuth /\ [][NextAuth]_vars
\* the audit rows the checker writes, read through GET /services/:id/health-logs
\* by an admin, with registrations and deregistrations
InitHealthLogs ==
    \E f \in BOOLEAN :
        InitWith(f, MaxLogIds, MaxLogTicks, MaxLogInFlight, 0, 0, 1, TRUE)
NextHealthLogs ==
    \/ \E e \in {PublicRegister, AdminDeregister, AdminHealthLogs} : Dispatch(e, "bearer")
    \/ AuthMiddleware("valid", {"admin"}, "u1")
    \/ RequireAdmin
    \/ Handlers
    \/ Checker
    \/ \E i \in REQIDS, q \in QUERIES, s \in BOOLEAN :
          HandlerGetHealthLogs(i, q, s)
SpecHealthLogs == InitHealthLogs /\ [][NextHealthLogs]_vars
\* the checker from NewHealthChecker on: Start, the ticks, Stop called by any
\* goroutine at any moment, before Start has begun or after
InitLifecycle ==
    /\ InitRest(FALSE, MaxLifeIds, MaxLifeTicks, MaxLifeInFlight, 0, 0, 1, FALSE)
    /\ px = NoPx
    /\ hc = NewChecker
NextLifecycle ==
    \/ StartBegins
    \/ StartReturns
    \/ Stop
    \/ Handlers
    \/ Checker
SpecLifecycle == InitLifecycle /\ [][NextLifecycle]_vars
\* the same with a scheduler that lets the Start goroutine run: it begins, and it
\* takes the stop case of its select, which stays ready once stopChan is closed
SpecLifecycleFair ==
    SpecLifecycle /\ WF_vars(StartBegins) /\ WF_vars(StartReturns)
\* the gateway with its checker and /route requests
InitGateway == InitWith(FALSE, MaxProbedIds, MaxTicks, MaxInFlight, MaxRoutes, 0, 1, FALSE)
NextGateway ==
    \/ Handlers
    \/ Checker
    \/ Routes
SpecGateway == InitGateway /\ [][NextGateway]_vars
\* several instances of one name, registered and deregistered in any order, and
\* /route requests for the name
ORDERHOSTS == HOSTS \cup {"h3"}
InitOrder == InitWith(FALSE, MaxOrderIds, 0, 0, MaxRoutes, 0, 1, FALSE)
NextOrder ==
    \/ \E h \in ORDERHOSTS, o \in {"neterr", "ok"} :
          HandlerProbe("api", h, 1, o, TRUE, TRUE, TRUE)
    \/ \E i \in IDS : HandlerRegister(i, TRUE, TRUE)
    \/ \E i \in REQIDS : HandlerDeregister(i, TRUE, TRUE)
    \/ RouteLookup("api")
    \/ RouteUnavailable
    \/ \E o \in {"neterr", "resp"} : RouteForward(o, 200)
SpecOrder == InitOrder /\ [][NextOrder]_vars
\* the gateway with a caller that sets records draining
NextDrain ==
    \/ NextGateway
    \/ \E i \in IDS, s \in StoreAnswers, fk \in BOOLEAN : Drain(i, s, fk)
SpecDrain == InitGateway /\ [][NextDrain]_vars
\* registration and deregistration requests running side by side, over a sound
\* store or over one that may fail
InitRegister ==
    \E f \in BOOLEAN : InitWith(f, MaxIds, 0, 0, 0, 0, 1, FALSE)
NextRegister == Handlers
SpecRegister == InitRegister /\ [][NextRegister]_vars
\* the gateway over a pool of connections
SpecLogs == InitLogs /\ [][Next]_vars

\* ------------------------------------------------------------------ C1
\* C1: at every moment no two records resident in the registry share the
\* triple (name, host, port), whatever registrations and deregistrations ran.
C1_UniqueAddress ==
    \A a \in services, b \in services : a # b => Triple(obj[a]) # Triple(obj[b])

\* a registration of a resident record's triple was attempted and turned down
C1_Witness ==
    \E a \in services, b \in Created \ services :
        /\ life[b] = "rejected"
        /\ Triple(obj[a]) = Triple(obj[b])

\* ------------------------------------------------------------------ C2
\* C2: Register of a record that is not resident and whose triple equals a
\* resident record's returns DuplicateAddress and leaves the ID map, the name
\* index and the services table as they were; Register of a record whose triple
\* no resident record has (it may differ in the host alone, or the name alone)
\* returns no error and makes the record resident.
C2_RegisterStep(id) ==
    LET dup == \E e \in services : Triple(obj[e]) = Triple(obj[id]) IN
    (ret'.op = "register" /\ ret'.id = id /\ id \notin services) =>
        /\ dup => /\ ret'.err = DuplicateAddress
                  /\ UNCHANGED <<services, byName, byNameKeys, byNameCap, held, dbServices, obj>>
        /\ ~dup => /\ ret'.err = OK
                   /\ services' = services \cup {id}
                   /\ id \in DOMAIN dbServices'

C2_DuplicateRejected == [][\A id \in Created : C2_RegisterStep(id)]_vars

\* Register has just turned down a second record at a resident record's address
C2_Witness ==
    /\ ret.op = "register"
    /\ ret.err = DuplicateAddress
    /\ ret.id \notin services
    /\ ret.id \notin DOMAIN dbServices
    /\ \E e \in services : Triple(obj[e]) = Triple(obj[ret.id])

\* ------------------------------------------------------------------ C3
\* C3: when the registrations that were started all carry distinct triples, all
\* of them have returned and nothing was deregistered, every one of them
\* succeeded and List returns exactly their records.
C3_AllRegistered ==
    ( /\ \A a \in Created, b \in Created : a # b => Triple(obj[a]) # Triple(obj[b])
      /\ \A i \in Created : life[i] \notin {"pending", "deregistered"} )
    => /\ \A i \in Created : life[i] = "registered"
       /\ List = Created

\* as many registrations as the run allows, with distinct triples, all returned
C3_Witness ==
    /\ Cardinality(Created) = limits.ids
    /\ limits.ids >= 2
    /\ \A a \in Created, b \in Created : a # b => Triple(obj[a]) # Triple(obj[b])
    /\ \A i \in Created : life[i] = "registered"
    /\ List = Created

\* ------------------------------------------------------------------ C4
\* C4: once a probe of a record that was answered 2xx has returned as the last
\* probe of that record (no probe of it is running any more, probes that
\* overlapped it included), the record's failure count is 0 and its status is
\* healthy.
C4_LastSuccessWins ==
    \A id \in services :
        (ProbesInFlight(id) = {} /\ lastDone[id] = "ok")
        => (obj[id].fc = 0 /\ obj[id].status = StatusHealthy)

\* ------------------------------------------------------------------ C5
\* C5: a reader of a record never sees a probe's update half applied: while one
\* probe is updating the record (and no other probe has touched it since it was
\* last at rest), the status, failure count and last-checked time a reader
\* gets are all three as before the update or all three as after it.
C5_After(id, t) ==
    LET p == probes[id][t]
        lca == IF p.pc \in {"mu_cmp", "mu_status"} THEN obj[id].lca ELSE now IN
    IF p.outcome = "ok"
    THEN <<StatusHealthy, 0, lca>>
    ELSE <<IF p.pre[2] + 1 >= failureThreshold THEN StatusUnhealthy ELSE p.pre[1],
           p.pre[2] + 1, lca>>

C5_NoTornRead ==
    \A id \in services, t \in TICKS :
        ( /\ readView.id = id
          /\ Alone(id, t)
          /\ probes[id][t].pc \in {"mh_fc", "mh_lca", "mu_write", "mu_lca", "mu_cmp",
                                   "mu_status"} )
        => LET view == <<readView.status, readView.fc, readView.lca>> IN
           view = probes[id][t].pre \/ view = C5_After(id, t)

\* ------------------------------------------------------------------ C6
\* C6: with a threshold T >= 1 and probes that do not overlap, a record that was
\* healthy with failure count 0 has failure count k after k failed probes in a
\* row, is healthy while k < T and unhealthy from k = T on, and from then on
\* GetHealthy of its name does not return it (until a probe succeeds, which
\* restarts the count).
C6_AtRest(id) == \A t \in TICKS : probes[id][t].pc \in {"none", "http"}

C6_FailureStreak ==
    \A id \in services :
        (streak[id] >= 0 /\ C6_AtRest(id)) =>
            /\ obj[id].fc = streak[id]
            /\ streak[id] < failureThreshold => obj[id].status = StatusHealthy
            /\ streak[id] >= failureThreshold =>
                  /\ obj[id].status = StatusUnhealthy
                  /\ id \notin SeqToSet(GetHealthy(obj[id].name))

\* the second of two failed probes in a row has returned with T = 2
C6_Witness ==
    \E id \in services :
        /\ failureThreshold = 2
        /\ streak[id] = 2
        /\ C6_AtRest(id)
        /\ obj[id].status = StatusUnhealthy
        /\ GetHealthy(obj[id].name) = <<>>

\* ------------------------------------------------------------------ C7
\* a probe of id has just finished MarkUnhealthy and overlapped no other probe
C7_JustMarked(id, t) ==
    /\ probes[id][t].pc = "arg"
    /\ probes[id][t].outcome = "fail"
    /\ Alone(id, t)

C7_Derived(before, after) ==
    /\ after.fc = before.fc + 1
    /\ after.status = StatusUnhealthy
          <=> (after.fc >= failureThreshold \/ before.status = StatusUnhealthy)
    /\ after.status # StatusUnhealthy => after.status = before.status

C8_BecomesUnhealthy(id) ==
    /\ id \in DOMAIN obj'
    /\ obj'[id].status = StatusUnhealthy
    /\ id \in Created => obj[id].status # StatusUnhealthy

\* C8 as stated: whenever a record's status becomes unhealthy, whatever step
\* sets it, its failure count is then >= the threshold.
C8_UnhealthyOnlyAtThreshold ==
    [][\A id \in IDS : C8_BecomesUnhealthy(id) => obj'[id].fc >= failureThreshold]_vars

\* C8: a record's status becomes unhealthy in three ways only: (a) a
\* registration handler creates it so after a failed initial probe, with count
\* 0; (b) MarkUnhealthy writes it after having read a count >= threshold, and
\* the count still is >= threshold then if the probe overlapped no other; (c)
\* UpdateStatus writes back the status a probe read from the record, which
\* changes the status only if the probe overlapped another.
C8_Transition(id) ==
    C8_BecomesUnhealthy(id) =>
        \/ id \notin Created /\ obj'[id].fc = 0
        \/ \E t \in TICKS :
              /\ probes[id][t].pc = "mu_status"
              /\ probes'[id][t].pc = "arg"
              /\ probes[id][t].fcTmp >= failureThreshold
              /\ Alone(id, t) => obj'[id].fc >= failureThreshold
        \/ \E t \in TICKS :
              /\ probes[id][t].pc = "upd"
              /\ probes[id][t].stTmp = StatusUnhealthy
              /\ ret'.op = "update_status"
              /\ ~Alone(id, t)

C8_UnhealthyTransitions == [][\A id \in IDS : C8_Transition(id)]_vars

\* MarkUnhealthy has just turned a healthy record unhealthy at the threshold,
\* in a probe that overlapped no other
C8_Witness ==
    \E id \in services, t \in TICKS :
        /\ C7_JustMarked(id, t)
        /\ probes[id][t].pre[1] = StatusHealthy
        /\ obj[id].status = StatusUnhealthy
        /\ obj[id].fc = failureThreshold

\* ------------------------------------------------------------------ C9
\* C9: a /route request that has been answered called the proxy if and only if
\* a healthy record of the name was resident when GetHealthy was called; if none
\* was, no request went to a backend and the answer is 503 "service
\* unavailable" with the service name.
C9_ProxyIffHealthy ==
    rt.pc = "done" =>
        /\ rt.invoked <=> rt.hadHealthy
        /\ rt.invoked => /\ rt.target \in Created
                         /\ obj[rt.target].name = rt.name
        /\ ~rt.hadHealthy =>
              /\ ~rt.sent
              /\ rt.code = 503
              /\ rt.error = "service unavailable"
              /\ rt.service = rt.name

\* a /route request was answered 503 while a record of the name was resident
\* but unhealthy
C9_Witness ==
    /\ rt.pc = "done"
    /\ ~rt.invoked
    /\ rt.code = 503
    /\ \E i \in services : obj[i].name = rt.name /\ obj[i].status = StatusUnhealthy

\* ------------------------------------------------------------------ C10
\* record id is in neither in-memory mapping
C10_NotResident(id) ==
    /\ id \notin services
    /\ \A n \in NAMES : id \notin SeqToSet(byName[n])

\* C10 as stated: when a probe of a deregistered record calls UpdateStatus, the
\* call is NotFound and the ID is in neither in-memory mapping nor in table
\* services.
C10_GoneEverywhere ==
    \A id \in IDS :
        (life[id] = "deregistered" /\ ret.op = "update_status" /\ ret.id = id) =>
            /\ ret.err = NotFound
            /\ C10_NotResident(id)
            /\ id \notin DOMAIN dbServices

\* C10: a deregistered record stays out of both in-memory mappings whatever a
\* probe of it does later; the probe's UpdateStatus returns NotFound and changes
\* neither the record nor the registry nor table services; and the record's row
\* stays as Deregister left it: absent once the DELETE was applied, never written
\* back.
C10_StepAfterDeregister(id) ==
    life[id] = "deregistered" =>
        /\ (ret'.op = "update_status" /\ ret'.id = id) =>
              /\ ret'.err = NotFound
              /\ UNCHANGED <<obj, services, byName, byNameKeys, byNameCap, held, dbServices>>
        /\ id \notin DOMAIN dbServices => id \notin DOMAIN dbServices'
        /\ id \in DOMAIN dbServices =>
              (id \in DOMAIN dbServices' /\ dbServices'[id] = dbServices[id])

C10_NoResurrection ==
    /\ [](\A id \in IDS : life[id] = "deregistered" => C10_NotResident(id))
    /\ [][\A id \in IDS : C10_StepAfterDeregister(id)]_vars

\* a probe launched before the deregistration has called UpdateStatus after it,
\* the row deleted
C10_Witness ==
    \E id \in IDS :
        /\ life[id] = "deregistered"
        /\ ret = [op |-> "update_status", id |-> id, err |-> NotFound, stored |-> NotIssued]
        /\ C10_NotResident(id)
        /\ id \notin DOMAIN dbServices

\* ------------------------------------------------------------------ C11
\* C11: two probes of the same record never overlap: at most one check
\* goroutine of a record is running at any moment, so that one probe's
\* transition is applied and persisted before the next probe reads the record.
C11_ProbesSequential ==
    \A id \in IDS : Cardinality(ProbesInFlight(id)) <= 1

\* ------------------------------------------------------------------ C12
\* the process is restarted in this step
C12_Restarted == boots' = boots + 1

C12_RestartStep ==
    C12_Restarted =>
        /\ services' = DOMAIN dbServices
        /\ \A id \in DOMAIN dbServices :
              /\ obj'[id] = LoadRow(dbServices[id])
              /\ \E k \in 1..Len(byName'[dbServices[id].name]) :
                    byName'[dbServices[id].name][k] = id
        /\ ~faulty => \A id \in IDS :
              /\ life[id] = "registered" => id \in services'
              /\ life[id] = "deregistered" => id \notin services'

C12_StoreStep(id) ==
    /\ (ret'.op = "register" /\ ret'.id = id /\ ret'.err = OK) =>
          /\ ret'.stored = Applied <=> id \in DOMAIN dbServices'
          /\ ~faulty => ret'.stored = Applied
    /\ (ret'.op = "deregister" /\ ret'.id = id /\ ret'.err = OK) =>
          /\ ret'.stored = Applied => id \notin DOMAIN dbServices'
          /\ ~faulty => ret'.stored = Applied
    /\ (id \notin DOMAIN dbServices /\ id \in DOMAIN dbServices') =>
          (ret'.op = "register" /\ ret'.id = id /\ ret'.err = OK)
    /\ (id \in DOMAIN dbServices /\ id \notin DOMAIN dbServices') =>
          (ret'.op = "deregister" /\ ret'.id = id /\ ret'.err = OK)

C13_Step(id) ==
    (ret'.id = id /\ ret'.stored = Failed) =>
        /\ ret'.err = OK
        /\ dbServices' = dbServices
        /\ ret'.op = "register" =>
              /\ id \notin services
              /\ id \in services'
              /\ id \in SeqToSet(byName'[obj[id].name])
        /\ ret'.op = "deregister" =>
              /\ id \in services
              /\ id \notin services'
              /\ \A n \in NAMES : id \notin SeqToSet(byName'[n])
        /\ ret'.op = "update_status" =>
              /\ id \in services'
              /\ \E t \in TICKS :
                    /\ probes[id][t].pc = "upd"
                    /\ probes'[id][t].pc # "upd"
                    /\ obj'[id].status = probes[id][t].stTmp

C14_Agree ==
    (~faulty /\ AllInFlight = {}) =>
        /\ DOMAIN dbServices = services
        /\ \A id \in services :
              /\ dbServices[id].status = obj[id].status
              /\ dbServices[id].fc = obj[id].fc

C14_RebuiltAfterUpdate ==
    ( /\ ~faulty
      /\ boots' = boots + 1
      /\ ret.op = "update_status"
      /\ ret.err = OK
      /\ obj[ret.id].status = StatusUnhealthy )
    => /\ ret.id \in services'
       /\ obj'[ret.id].status = StatusUnhealthy
       /\ obj'[ret.id].fc = obj[ret.id].fc
       /\ \A n \in NAMES :
             ret.id \notin SeqToSet(SelectSeq(byName'[n], LAMBDA i : IsHealthy(obj'[i])))

C14_WriteThrough == []C14_Agree /\ [][C14_RebuiltAfterUpdate]_vars

\* a record that a probe left unhealthy has been rebuilt from the store as
\* unhealthy, and no probe has run since
C14_Witness ==
    \E id \in services :
        /\ ~faulty
        /\ boots = 1
        /\ life[id] = "reloaded"
        /\ AllInFlight = {}
        /\ lastDone[id] = "none"
        /\ obj[id].status = StatusUnhealthy
        /\ obj[id].fc >= 1
        /\ dbServices[id].status = StatusUnhealthy
        /\ GetHealthy(obj[id].name) = <<>>

\* ---------------------------------------------------------------- C15
\* C15: once deregister(id) has returned, select_logs(id, limit) returns no row,
\* whatever the limit, also when a probe of the record that was in flight during
\* the deregistration completes afterwards (stated for a store that fails no
\* statement)
C15_NoLogsAfterDeregister ==
    ~faulty =>
        \A id \in IDS, limit \in 1..MaxLimit :
            life[id] = "deregistered" => GetByServiceID(dbLogs, id, limit) = <<>>

\* ---------------------------------------------------------------- C16
\* the step in which the check goroutine <<id, t>> calls logHealthCheck
C16_LogStep(id, t) ==
    /\ boots' = boots
    /\ \/ probes[id][t].pc = "http" /\ probes'[id][t].pc = "mu_read"
       \/ probes[id][t].pc = "log_ok" /\ probes'[id][t].pc = "none"

\* the step in which the check goroutine <<id, t>> returns
C16_Returns(id, t) ==
    boots' = boots /\ probes[id][t].pc # "none" /\ probes'[id][t].pc = "none"

\* a check goroutine calls logHealthCheck once: a failed probe before
\* handleFailure, a successful one as its last step, and at no other position
C16_OneCall ==
    \A id \in IDS, t \in TICKS :
        /\ C16_Returns(id, t) =>
              \/ probes[id][t].pc = "upd" /\ probes[id][t].outcome = "fail"
              \/ probes[id][t].pc = "log_ok" /\ probes[id][t].outcome = "ok"
        /\ probes'[id][t].outcome = "fail" /\ probes[id][t].outcome # "fail"
              => C16_LogStep(id, t)
        /\ probes'[id][t].pc = "http" => probes[id][t].pc \in {"none", "http"}
        /\ probes'[id][t].pc = "log_ok" =>
              \/ probes[id][t].pc = "log_ok"
              \/ probes[id][t].pc = "upd" /\ probes[id][t].outcome = "ok"
        /\ (probes'[id][t] # probes[id][t] /\ ~C16_LogStep(id, t)) => dbLogs' = dbLogs

\* C16 (as stated): the logHealthCheck call of every probe of a registered record
\* adds exactly one health_check_logs row
C16_OneRowPerProbe ==
    [][ /\ C16_OneCall
        /\ \A id \in IDS, t \in TICKS :
              (C16_LogStep(id, t) /\ id \in services) =>
                  Len(dbLogs'[id]) = Len(dbLogs[id]) + 1
      ]_vars

\* C16 (amended): every probe calls logHealthCheck exactly once; the call adds at
\* most one row, of the probed record, and exactly one when the record is
\* registered and the store fails no statement
C16_OneRowUnlessInsertFails ==
    [][ /\ C16_OneCall
        /\ \A id \in IDS, t \in TICKS :
              C16_LogStep(id, t) =>
                  /\ dbLogs'[id] \in {dbLogs[id], Append(dbLogs[id], now)}
                  /\ \A k \in IDS \ {id} : dbLogs'[k] = dbLogs[k]
                  /\ (~faulty /\ id \in services) => Len(dbLogs'[id]) = Len(dbLogs[id]) + 1
      ]_vars

\* two probes of a registered record came back one after the other, the second a
\* failure, over a sound store: two rows
C16_Witness ==
    \E id \in services :
        /\ ~faulty /\ ~pooled
        /\ now = 2 /\ AllInFlight = {}
        /\ lastDone[id] = "fail"
        /\ Len(dbLogs[id]) = 2

\* ---------------------------------------------------------------- C17
\* the request in progress carried a bearer token that Aegis validated for a user
\* whose roles contain "admin"
C17_IsAdminRequest ==
    req.header = "bearer" /\ req.answer = "valid" /\ "admin" \in req.roles

\* what the chain of an admin route has answered, and whom it let through
C17_Gate ==
    req.endpoint \in ADMIN_ENDPOINTS =>
        /\ req.header # "bearer" => (req.pc = "done" /\ req.code = 401 /\ ~req.ran)
        /\ req.answer = "invalid" => (req.pc = "done" /\ req.code = 401 /\ ~req.ran)
        /\ (req.answer = "valid" /\ "admin" \notin req.roles /\ req.pc = "done")
              => (req.code = 403 /\ ~req.ran)
        /\ (req.ran \/ req.pc = "handler") => C17_IsAdminRequest

\* every change of the registry or of the store is made by a handler, reached on
\* an admin route by an admin request only
C17_Effects ==
    regVars' # regVars =>
        /\ req.pc = "handler"
        /\ req.endpoint \in ADMIN_ENDPOINTS => C17_IsAdminRequest

\* C17: every admin endpoint answers 401 to a request without a bearer token and
\* to one whose token Aegis reports as not valid, 403 to a user without the role
\* "admin"; the handler, and any effect on the registry, runs only for a
\* validated token whose roles contain exactly "admin"
C17_AdminOnly == []C17_Gate /\ [][C17_Effects]_vars

\* an admin has deregistered a record through DELETE /services/:id
C17_Witness ==
    /\ req.endpoint = AdminDeregister /\ req.pc = "done" /\ req.ran /\ req.code = 200
    /\ C17_IsAdminRequest
    /\ \E id \in IDS : life[id] = "deregistered"

C19_Replied ==
    /\ req.endpoint \in {PublicRegister, AdminRegister}
    /\ req.pc = "done"
    /\ ret.op = "register"

\* C19: a POST /register or POST /services with a valid payload and a free
\* (name, host, port) always inserts the record and answers 201; the record is
\* unhealthy when the registration probe failed (transport error or a status
\* outside [200,300)) and healthy otherwise
C19_StatusFromProbe ==
    (C19_Replied /\ ret.err = OK) =>
        /\ req.code = 201
        /\ ret.id \in services
        /\ obj[ret.id].status = IF req.probe = "ok" THEN StatusHealthy ELSE StatusUnhealthy

\* ---------------------------------------------------------------- C20
\* C20: a registration whose (name, host, port) is that of a resident record is
\* answered 409 and creates no record
C20_ConflictOnDuplicate ==
    (C19_Replied /\ ret.err = DuplicateAddress) =>
        /\ req.code = 409
        /\ ret.id \notin services
        /\ ret.id \notin DOMAIN dbServices

\* ---------------------------------------------------------------- C21
\* C21: when a healthy instance was selected and the call of the backend failed
\* at transport level ("backend request failed"), the client is answered 502, not
\* the 503 of a name without healthy instance
C21_BadGatewayOnTransportFailure ==
    (rt.pc = "done" /\ rt.invoked /\ rt.sent /\ rt.message = "backend request failed")
        => (rt.code = 502 /\ rt.code # 503)

\* ---------------------------------------------------------------- C22
\* the header names the claim lists, in every spelling
C22_HopByHop ==
    [word : {"connection", "keep-alive", "proxy-authenticate", "proxy-authorization",
             "te", "trailers", "transfer-encoding", "upgrade"},
     casing : CASINGS]

\* the outbound request carries no hop-by-hop header
C22_Stripped == \A k \in DOMAIN px.proxyReq.header : k \notin C22_HopByHop

\* the inbound header k is on the outbound request with the inbound values
C22_Verbatim(k) ==
    \E x \in DOMAIN px.proxyReq.header :
        ToLower(x) = ToLower(k) /\ px.proxyReq.header[x] = px.original.header[k]

C22_Overwritten(k) ==
    \/ k.word = "x-forwarded-for" /\ px.original.remoteAddr # ""
    \/ k.word = "x-forwarded-proto"
    \/ k.word = "x-forwarded-host" /\ px.original.host # ""

C23_Answered == req.endpoint = PasswordChange /\ req.pc = "done" /\ req.ran

\* the caller asked for their own password or is an admin
C23_Allowed == req.user = req.target \/ "admin" \in req.roles

C24_GoneFromMemory ==
    (ret.op = "deregister" /\ ret.err = OK) =>
        /\ GetByID(ret.id) = NotFound
        /\ ret.id \notin List
        /\ \A n \in NAMES : /\ ret.id \notin SeqToSet(GetByName(n).instances)
                            /\ ret.id \notin SeqToSet(GetHealthy(n))

\* a deregister succeeds iff the ID was resident, fails NotFound otherwise and
\* then changes nothing; a successful one leaves every other record as it was
C24_Step ==
    ret'.op = "deregister" =>
        /\ ret'.err = (IF ret'.id \in services THEN OK ELSE NotFound)
        /\ ret'.err = NotFound => UNCHANGED regVars
        /\ ret'.err = OK =>
              /\ services' = services \ {ret'.id}
              /\ obj' = obj
              /\ \A k \in DOMAIN dbServices \ {ret'.id} :
                    k \in DOMAIN dbServices' /\ dbServices'[k] = dbServices[k]

\* C24 (as stated): deregister(id) of a resident record removes it from the id
\* map, the name index and the durable store; deregister(id) of an absent ID fails
\* NotFound and changes nothing
C24_DeregisterEverywhere ==
    /\ []C24_GoneFromMemory
    /\ [][C24_Step]_vars
    /\ []((ret.op = "deregister" /\ ret.err = OK) => ret.id \notin DOMAIN dbServices)

\* C24 (amended): as stated for the two maps and for an absent ID; the durable row
\* is removed when the DELETE is applied, and stays when the store fails it
C24_DeregisterInMemory ==
    /\ []C24_GoneFromMemory
    /\ [][C24_Step]_vars
    /\ []((ret.op = "deregister" /\ ret.err = OK) =>
             (ret.stored = Applied => ret.id \notin DOMAIN dbServices))

\* a second deregister of a record that was deregistered has just failed
C24_Witness ==
    /\ ret.op = "deregister" /\ ret.err = NotFound
    /\ life[ret.id] = "deregistered"
    /\ GetByID(ret.id) = NotFound

\* ---------------------------------------------------------------- C25
\* the probe of id launched at tick t completes after a failed check, and it is
\* the first probe ever launched for the record, hence that of the first tick
\* after its registration; the record is still resident
C25_FirstProbeFails(id, t) ==
    /\ probes[id][t].pc = "upd"
    /\ probes[id][t].outcome = "fail"
    /\ probes'[id][t].pc = "none"
    /\ lastDone[id] = "none"
    /\ ProbesInFlight(id) = {t}
    /\ id \in services'

\* get_healthy of the record's name returns the record after the step
C25_StillReturned(id) == id \in SeqToSet(GetHealthy(obj[id].name))'

\* C25 (as stated): once the first tick after registration has completed its
\* failed probe of a record, the record is no longer returned by get_healthy
C25_CorrectedWithinOneTick ==
    [][\A id \in IDS, t \in TICKS : C25_FirstProbeFails(id, t) => ~C25_StillReturned(id)]_vars

\* the record has failed as many probes in a row as the threshold asks, none
\* overlapping another, and none is running
C25_ThresholdFailures(id) ==
    /\ id \in services
    /\ ProbesInFlight(id) = {}
    /\ streak[id] >= failureThreshold

\* C25 (amended): a record whose backend fails its health check leaves get_healthy
\* once failure_threshold probes in a row have failed; after the first failed
\* probe it is still returned exactly when the threshold is above 1 and the
\* record was healthy
C25_CorrectedAtThreshold ==
    /\ [][\A id \in IDS, t \in TICKS :
            C25_FirstProbeFails(id, t) =>
               (C25_StillReturned(id) <=>
                   (failureThreshold > 1 /\ obj[id].status = StatusHealthy))]_vars
    /\ [](\A id \in IDS :
            C25_ThresholdFailures(id) => id \notin SeqToSet(GetHealthy(obj[id].name)))

\* the first probe of a record registered healthy has failed and completed, the
\* threshold is 2 and the record is still returned by get_healthy
C25_Witness ==
    \E id \in services :
        /\ failureThreshold = 2
        /\ lastDone[id] = "fail"
        /\ streak[id] = 1
        /\ ProbesInFlight(id) = {}
        /\ obj[id].fc = 1
        /\ id \in SeqToSet(GetHealthy(obj[id].name))

\* ---------------------------------------------------------------- C26
\* a check goroutine of record id takes this step
C26_ProbeStep(id) ==
    \E t \in TICKS : probes[id][t].pc # "none" /\ probes'[id][t] # probes[id][t]

\* the identity of a record object or row: every field but status, failure
\* count and last check
C26_Identity(o) == <<o.name, o.host, o.port>>

C27_Answers ==
    /\ req.pc = "handler"
    /\ req.endpoint = AdminHealthLogs
    /\ req'.pc = "done"

\* N: the limit query value when it parses as a positive integer, else 50
C27_N(query) ==
    IF ~Atoi(query).err /\ Atoi(query).value >= 1 THEN Atoi(query).value ELSE 50

\* how many times v occurs in rows
C27_Count(rows, v) == Cardinality({i \in 1..Len(rows) : rows[i] = v})

\* rows is a selection of n of the rows of all, newest first by checked_at, none
\* left out being newer than one returned
C27_Newest(rows, all, n) ==
    /\ Len(rows) = n
    /\ \A i \in 1..Len(rows), j \in 1..Len(rows) : i < j => rows[i] >= rows[j]
    /\ \A v \in SeqToSet(rows) : C27_Count(rows, v) <= C27_Count(all, v)
    /\ \A v \in SeqToSet(all) :
          C27_Count(rows, v) < C27_Count(all, v) => \A i \in 1..Len(rows) : rows[i] >= v

\* C27: GET /services/:id/health-logs answers 404 when the ID is not resident;
\* otherwise it returns the N newest audit rows of the service (all of them when
\* there are fewer), newest first by checked_at, where N is the limit query value
\* when it parses as a positive integer and 50 in every other case; a query the
\* store fails is answered 500 with no row
C27_HealthLogs ==
    [][C27_Answers =>
          LET id == req'.service
              all == dbLogs[id]
              n == IF Len(all) <= C27_N(req'.query) THEN Len(all) ELSE C27_N(req'.query) IN
          /\ id \notin services => req'.code = 404 /\ req'.logs = <<>>
          /\ id \in services =>
                \/ /\ req'.code = 200
                   /\ req'.count = Len(req'.logs)
                   /\ Len(req'.logs) <= C27_N(req'.query)
                   /\ C27_Newest(req'.logs, all, n)
                \/ faulty /\ req'.code = 500 /\ req'.logs = <<>>]_vars

\* a request with limit=1 for a record with two audit rows, written at ticks 1 and
\* 2, has been answered with the row of tick 2
C27_Witness ==
    /\ req.pc = "done" /\ req.endpoint = AdminHealthLogs /\ req.code = 200
    /\ req.service \in services
    /\ req.query = <<"1">>
    /\ dbLogs[req.service] = <<1, 2>>
    /\ req.logs = <<2>>

\* ---------------------------------------------------------------- C28
\* C28: no call of Stop panics, the second and later ones included, and once
\* stopped the checker stays stopped: stopChan stays closed and a Start that has
\* returned does not run again
C28_StopSafeToRepeat ==
    /\ [](hc.panics = 0)
    /\ [][ /\ hc.stopChan = "closed" => hc'.stopChan = "closed"
           /\ hc.pc = "returned" => hc'.pc = "returned" ]_vars

\* ---------------------------------------------------------------- C29
\* Start has returned only after a Stop, and then its ticker is stopped; a ticker
\* runs only while the loop of Start does
C29_NotBeforeStop ==
    /\ hc.pc = "returned" => (hc.stops >= 1 /\ hc.stopChan = "closed" /\ hc.ticker = "stopped")
    /\ hc.ticker = "running" => hc.pc = "select"
    /\ hc.pc = "new" => hc.ticker = "none"

\* C29: Start runs until Stop and not longer: before a Stop it never returns; after
\* one it eventually returns, with its ticker stopped, also when Stop was called
\* before Start had begun
C29_StartUntilStop ==
    /\ []C29_NotBeforeStop
    /\ (hc.stopChan = "closed") ~> (hc.pc = "returned" /\ hc.ticker = "stopped")

\* Start has run a round of probes, Stop was called once, and Start has returned
C29_Witness ==
    /\ hc.pc = "returned" /\ hc.ticker = "stopped"
    /\ hc.stops = 1 /\ hc.panics = 0
    /\ now >= 1

\* ---------------------------------------------------------------- C30
\* C30: when a call of Stop has returned the loop of Start is no longer running,
\* and no round of probes (checkAll) starts afterwards
C30_StopWaits ==
    /\ [](hc.stops >= 1 => hc.pc # "select")
    /\ [][hc.stops >= 1 => now' = now]_vars

\* ---------------------------------------------------------------- C31
\* the goroutines that perform an HTTP call in this step: a check goroutine doing
\* client.Do on the health URL, a registration handler doing checkServiceHealth,
\* the /route handler doing client.Do on the backend
C31_HttpCallers ==
    {CheckG(q[1], q[2]) : q \in {pt \in IDS \X TICKS :
                                     /\ probes[pt[1]][pt[2]].pc = "http"
                                     /\ probes'[pt[1]][pt[2]].pc # "http"}}
    \cup (IF DOMAIN obj' # DOMAIN obj THEN {HandlerG} ELSE {})
    \cup (IF rt.pc = "looked" /\ rt'.pc = "done" /\ rt'.sent THEN {RouteG} ELSE {})

\* the goroutines that stand before an HTTP call
C31_BeforeHttp ==
    {CheckG(q[1], q[2]) : q \in {pt \in IDS \X TICKS : probes[pt[1]][pt[2]].pc = "http"}}
    \cup (IF rt.pc = "looked" THEN {RouteG} ELSE {})

\* C31: no goroutine holds the registry lock, shared or exclusive, while it
\* performs an HTTP call: periodic probes, registration-time probes and proxied
\* backend requests are issued with the lock released
C31_NoLockAcrossHttp ==
    /\ [](\A g \in C31_BeforeHttp : Holds(g) = {})
    /\ [][\A g \in C31_HttpCallers : Holds(g) = {} /\ {h \in mu' : h[1] = g} = {}]_vars

\* a /route request has been sent to a backend that a registration probed and a
\* periodic probe checked, and the lock is free
C31_Witness ==
    /\ rt.pc = "done" /\ rt.sent
    /\ rt.target \in services
    /\ lastDone[rt.target] # "none"
    /\ mu = {}

\* ---------------------------------------------------------------- C32
\* the earliest-registered instance of name that is healthy now, 0 if none
C32_EarliestHealthy(name) ==
    LET healthy == {i \in 1..Len(byName[name]) : obj[byName[name][i]].status = StatusHealthy}
    IN IF healthy = {} THEN 0
       ELSE byName[name][CHOOSE i \in healthy : \A j \in healthy : i <= j]

\* where id stands in the name index of name
C32_Position(name, id) == CHOOSE i \in 1..Len(byName[name]) : byName[name][i] = id

\* the name index is kept in registration order: a register appends the record
\* to the sequence of its name, a deregister takes the record out and leaves
\* the others in their order
C32_RegistrationOrder ==
    /\ (ret'.op = "register" /\ ret'.err = OK) =>
          byName' = [byName EXCEPT ![obj[ret'.id].name] = Append(@, ret'.id)]
    /\ (ret'.op = "deregister" /\ ret'.err = OK) =>
          LET gone == ret'.id IN
          \A n \in NAMES : byName'[n] = SelectSeq(byName[n], LAMBDA i : i # gone)

\* the lookup of a /route request lists the healthy instances in the order of the
\* name index, the earliest-registered healthy one first
C32_Lookup ==
    (rt'.pc = "looked" /\ rt.pc # "looked") =>
        /\ rt'.instances = <<>> <=> C32_EarliestHealthy(rt'.name) = 0
        /\ rt'.instances # <<>> => rt'.instances[1] = C32_EarliestHealthy(rt'.name)
        /\ \A a \in 1..Len(rt'.instances), b \in 1..Len(rt'.instances) :
              a < b => C32_Position(rt'.name, rt'.instances[a])
                         < C32_Position(rt'.name, rt'.instances[b])

C34_Group(id) == {k \in Created : Triple(obj[k]) = Triple(obj[id])}

\* every register call of the group has returned and none of its records has been
\* deregistered
C34_Settled(G) == \A k \in G : life[k] \in {"registered", "rejected"}

\* the durable rows that carry the triple of record id
C34_Rows(id) == {k \in DOMAIN dbServices : Triple(dbServices[k]) = Triple(obj[id])}

\* of the register calls of a settled group exactly one returned success, and its
\* record is the one of the triple that is resident
C34_OneWinner(id) ==
    \E w \in C34_Group(id) :
        /\ life[w] = "registered"
        /\ \A k \in C34_Group(id) \ {w} : life[k] = "rejected"
        /\ {k \in services : Triple(obj[k]) = Triple(obj[id])} = {w}

InitIndex == \E f \in BOOLEAN : InitWith(f, MaxIds, 0, 0, 0, MaxRestarts, 1, FALSE)
NextIndex ==
    \/ Handlers
    \/ Restart
SpecIndex == InitIndex /\ [][NextIndex]_vars

\* the positions of the name index, under name n, that hold record id
C35_Positions(n, id) == {k \in 1..Len(byName[n]) : byName[n][k] = id}

\* C35: a record is in the id map exactly when it appears once in the name index
\* under its own name; the name index holds no record that is absent from the id
\* map or that bears another name; and no key of the name index maps to an empty
\* sequence
C35_MapsAgree ==
    /\ \A id \in DOMAIN obj :
          id \in services <=> Cardinality(C35_Positions(obj[id].name, id)) = 1
    /\ \A n \in NAMES : \A k \in 1..Len(byName[n]) :
          /\ byName[n][k] \in services
          /\ obj[byName[n][k]].name = n
    /\ \A n \in NAMES : n \in byNameKeys <=> Len(byName[n]) > 0

\* the last instance of a name was deregistered while a record of another name
\* stays resident, in a process that was restarted
C35_Witness ==
    /\ boots > 0
    /\ ret.op = "deregister"
    /\ ret.err = OK
    /\ obj[ret.id].name \notin byNameKeys
    /\ services # {}

\* ------------------------------------------------------------ claim C36
\* C36: a resident record whose status is healthy has a failure count below the
\* failure threshold, also when probes of the record overlapped; read at the
\* states in which no probe of the record is running, where no probe is between
\* two of its field writes
C36_HealthyBelowThreshold ==
    \A id \in services :
        (ProbesInFlight(id) = {} /\ obj[id].status = StatusHealthy)
            => obj[id].fc < failureThreshold

\* ------------------------------------------------------------ claim C37
\* C37: every row of health_check_logs refers to a service ID that is resident:
\* there is no audit row of an ID that was never registered, whose registration
\* was rejected, or that was deregistered (stated for a store that fails no
\* statement)
C37_LogsOfResidentsOnly ==
    ~faulty => \A id \in IDS : dbLogs[id] # <<>> => id \in services

\* ------------------------------------------------------------ claim C38
\* a caller of ServiceRegistry.GetByName(name), under the shared lock, keeps the
\* slice it was returned
CallGetByName(name) ==
    LET r == GetByName(name) IN
    /\ held' = IF r.err = OK
               THEN [name |-> name, returned |-> r.instances, elems |-> r.instances,
                     aliased |-> TRUE]
               ELSE NoHeld
    /\ ret' = [op |-> "get_by_name", id |-> 0, err |-> r.err, stored |-> NotIssued]
    /\ readView' = NoView
    /\ Shared(HandlerG)
    /\ UNCHANGED <<now, failureThreshold, regVars, byNameKeys, byNameCap, probes, lastDone,
                   streak, rt, faulty, limits, px, hc, boots, pooled, req>>

\* registrations and deregistrations while a caller holds the result of GetByName
InitSnapshot == InitWith(FALSE, MaxIds, 0, 0, 0, 0, 1, FALSE)
NextSnapshot ==
    \/ Handlers
    \/ \E n \in NAMES : CallGetByName(n)
SpecSnapshot == InitSnapshot /\ [][NextSnapshot]_vars

\* C38: the sequence GetByName returned keeps its length and its elements through
\* every later Register and Deregister of an instance of that name, and GetByName
\* fails with "no instances" exactly when no resident record has the name
C38_Snapshot ==
    /\ held.name # "none" => held.elems = held.returned
    /\ \A n \in NAMES :
          GetByName(n).err # OK <=> ~\E id \in services : obj[id].name = n

\* ------------------------------------------------------------ claim C39
\* C39: whenever ValidateToken returns a response with valid = true, with or
\* without a user object, AuthMiddleware lets the request on to the next handler
\* of its chain with the user's identity and roles attached; it does not answer
\* the request itself
C39_ValidIsAllowed ==
    [][(req.pc = "validate" /\ req'.answer \in {"valid", "nouser"})
          => /\ req'.pc \in {"admin", "handler"}
             /\ req'.code = 0
             /\ req'.answer = "valid" => req'.user \in USERIDS]_vars
====
